---- MODULE Spec2Model ----
(***************************************************************************)
(* Model of the nuclei-mcp JSON-RPC dispatcher (package mcpserver):        *)
(* Server, handleRequest, handleToolCall, RegisterTool, RegisterResource,  *)
(* sendError, sendResponse, sendNotification and the Start decode loop.    *)
(*                                                                         *)
(* Values are modelled structurally.  A Go nil (nil interface, nil         *)
(* pointer, JSON null decoded into interface{}) is Nil.  A decoded JSON    *)
(* value is a record tagged with its JSON type.  A line written to the     *)
(* writer is the JSON object json.Marshal produces: a record whose domain  *)
(* is exactly the set of keys present on the wire, so that `omitempty` is  *)
(* modelled by what it does.                                               *)
(*                                                                         *)
(* The writer is assumed not to fail (os.Stdout in example_server.go).     *)
(***************************************************************************)
EXTENDS Integers, Sequences, FiniteSets, TLC

(***************************************************************************)
(* Bounds of the model.                                                    *)
(***************************************************************************)
MaxLines == 3       \* lines on the input stream
MaxTools == 1       \* RegisterTool calls
MaxResources == 1   \* RegisterResource calls

(***************************************************************************)
(* mcpserver/types.go: constants.                                          *)
(***************************************************************************)
LatestProtocolVersion == "DRAFT-2025-v1"
JsonRpcVersion == "2.0"
ParseError == -32700
InvalidRequest == -32600
MethodNotFound == -32601
InvalidParams == -32602
InternalError == -32603
ContentTypeText == "text"

(***************************************************************************)
(* Go nil and decoded JSON values (interface{} after json decoding).       *)
(***************************************************************************)
Nil == [t |-> "nil"]
JStr(s) == [t |-> "string", s |-> s]
JNum(n) == [t |-> "number", n |-> n]
JObj(f) == [t |-> "object", f |-> f]

(***************************************************************************)
(* Go struct types as decoding schemas: what json.Unmarshal expects for    *)
(* each key.  "any" is interface{} / map[string]interface{} content.       *)
(***************************************************************************)
TString == [t |-> "string"]
TBool == [t |-> "bool"]
TAny == [t |-> "any"]
TMap == [t |-> "object", any |-> TRUE]
TStruct(fields) == [t |-> "object", any |-> FALSE, fields |-> fields]

Implementation == TStruct([name |-> TString, version |-> TString])

ClientCapabilities ==
    TStruct([experimental |-> TMap,
             roots |-> TStruct([listChanged |-> TBool]),
             sampling |-> TAny])

InitializeRequest ==
    TStruct([protocolVersion |-> TString,
             capabilities |-> ClientCapabilities,
             clientInfo |-> Implementation])

CallToolRequest == TStruct([name |-> TString, arguments |-> TMap])

(***************************************************************************)
(* json.Unmarshal(toJSON(v), &target): nil error or not.  JSON null        *)
(* decodes into any Go type as a no-op; a struct or map target needs a     *)
(* JSON object; keys the struct does not declare are ignored; a declared   *)
(* key needs a value of the declared type.                                 *)
(***************************************************************************)
RECURSIVE UnmarshalOK(_, _)
UnmarshalOK(v, ty) ==
    IF v.t = "nil" \/ ty.t = "any" THEN TRUE
    ELSE IF ty.t # "object" THEN v.t = ty.t
    ELSE IF v.t # "object" THEN FALSE
    ELSE IF ty.any THEN TRUE
    ELSE \A k \in (DOMAIN v.f) \cap (DOMAIN ty.fields) :
            UnmarshalOK(v.f[k], ty.fields[k])

\* The Name field of a CallToolRequest decoded without error from params.
CallToolName(params) ==
    IF params.t = "object" /\ "name" \in DOMAIN params.f /\ params.f.name.t = "string"
    THEN params.f.name.s
    ELSE ""

\* The Arguments field of a CallToolRequest decoded without error from params.
CallToolArguments(params) ==
    IF params.t = "object" /\ "arguments" \in DOMAIN params.f
    THEN params.f.arguments
    ELSE Nil

(***************************************************************************)
(* json.Marshal of a JSONRPCResponse: "result" and "error" carry           *)
(* omitempty, "jsonrpc" and "id" do not.                                   *)
(***************************************************************************)
\* Faulty variant: "result" without omitempty, so a nil Result is written
\* as "result": null next to "error".
MarshalResponseNoOmit(r) ==
    IF r.Error # Nil
    THEN [jsonrpc |-> r.JSONRPC, id |-> r.ID, result |-> r.Result, error |-> r.Error]
    ELSE [jsonrpc |-> r.JSONRPC, id |-> r.ID, result |-> r.Result]

MarshalResponse(r) ==
    IF r.Result # Nil /\ r.Error # Nil
    THEN [jsonrpc |-> r.JSONRPC, id |-> r.ID, result |-> r.Result, error |-> r.Error]
    ELSE IF r.Result # Nil
    THEN [jsonrpc |-> r.JSONRPC, id |-> r.ID, result |-> r.Result]
    ELSE IF r.Error # Nil
    THEN [jsonrpc |-> r.JSONRPC, id |-> r.ID, error |-> r.Error]
    ELSE [jsonrpc |-> r.JSONRPC, id |-> r.ID]

\* Server.sendResponse: the lines written to s.writer.
sendResponse(response) == << MarshalResponse(response) >>

\* Faulty variant: the error response is built without the request's id.
sendErrorNullID(id, code, message) ==
    sendResponse([JSONRPC |-> JsonRpcVersion,
                  ID |-> Nil,
                  Result |-> Nil,
                  Error |-> [code |-> code, message |-> message]])

\* Server.sendError: a response with Error set and Result left nil.
sendError(id, code, message) ==
    sendResponse([JSONRPC |-> JsonRpcVersion,
                  ID |-> id,
                  Result |-> Nil,
                  Error |-> [code |-> code, message |-> message]])

\* Faulty variant: the notification is written once per registered item
\* and once more for the list.
sendNotificationTwice(method) ==
    << [jsonrpc |-> JsonRpcVersion, method |-> method],
       [jsonrpc |-> JsonRpcVersion, method |-> method] >>

\* Server.sendNotification with nil params: "params" carries omitempty.
sendNotification(method) == << [jsonrpc |-> JsonRpcVersion, method |-> method] >>


(***************************************************************************)
(* json.Marshal of the values handleRequest puts in response.Result.       *)
(***************************************************************************)
EmptyObject == [k \in {} |-> Nil]

\* A nil slice marshals to null, a non-nil one to an array.
MarshalSlice(slice) == IF Len(slice) = 0 THEN Nil ELSE [t |-> "array", items |-> slice]

\* InitializeResult: "instructions" carries omitempty.
MarshalInitializeResult(v) ==
    IF v.Instructions = ""
    THEN [protocolVersion |-> v.ProtocolVersion,
          capabilities |-> v.Capabilities,
          serverInfo |-> v.ServerInfo]
    ELSE [protocolVersion |-> v.ProtocolVersion,
          capabilities |-> v.Capabilities,
          serverInfo |-> v.ServerInfo,
          instructions |-> v.Instructions]

\* CallToolResult: "isError" carries omitempty.
MarshalCallToolResult(v) ==
    IF v.IsError
    THEN [content |-> v.Content, isError |-> TRUE]
    ELSE [content |-> v.Content]

(***************************************************************************)
(* NewServer: the fields of a freshly constructed Server.                  *)
(***************************************************************************)
ServerInfo == [name |-> "go-mcp-server", version |-> "0.1.0"]

ServerCapabilitiesValue ==
    [tools |-> [listChanged |-> TRUE],
     resources |-> [subscribe |-> TRUE, listChanged |-> TRUE]]

(***************************************************************************)
(* Server.handleToolCall: the first registered tool whose Name equals      *)
(* req.Name decides; without one the call fails with "tool not found".     *)
(***************************************************************************)
ToolFound(toolList, name) == \E i \in 1..Len(toolList) : toolList[i].Name = name

\* Faulty variant: the tool == nil check is missing.
handleToolCallNoCheck(toolList, name, arguments) ==
    [err |-> Nil,
     result |-> [Content |-> << [type |-> ContentTypeText,
                                 text |-> << "Tool '%s' executed with arguments: %v",
                                             name, arguments >>] >>,
                 IsError |-> FALSE]]

handleToolCall(toolList, name, arguments) ==
    IF ToolFound(toolList, name)
    THEN [err |-> Nil,
          result |-> [Content |-> << [type |-> ContentTypeText,
                                      text |-> << "Tool '%s' executed with arguments: %v",
                                                  name, arguments >>] >>,
                      IsError |-> FALSE]]
    ELSE [err |-> << "tool not found: %s", name >>, result |-> Nil]

(***************************************************************************)
(* Server.handleRequest, one operator per case of the switch.  Each yields *)
(* the lines written to the writer and the value of s.initialized after    *)
(* the call; no case assigns tools, resources or templates.                *)
(***************************************************************************)
Success(id, result) ==
    sendResponse([JSONRPC |-> JsonRpcVersion, ID |-> id, Result |-> result, Error |-> Nil])

NotInitialized(id) == sendError(id, InvalidRequest, << "Server not initialized" >>)

\* Faulty variant: s.initialized is assigned the outcome of the decoding, so
\* a failed initialize resets it.
handleInitializeResets(r, init) ==
    IF ~UnmarshalOK(r.Params, InitializeRequest)
    THEN [out |-> sendError(r.ID, InvalidParams, << "Invalid initialization parameters" >>),
          initialized |-> FALSE]
    ELSE [out |-> Success(r.ID,
                     MarshalInitializeResult(
                         [ProtocolVersion |-> LatestProtocolVersion,
                          Capabilities |-> ServerCapabilitiesValue,
                          ServerInfo |-> ServerInfo,
                          Instructions |-> "MCP server implemented in Go"])),
          initialized |-> TRUE]

\* Faulty variant: a second initialize is rejected.
handleInitializeOnce(r, init) ==
    IF init
    THEN [out |-> sendError(r.ID, InvalidRequest, << "Server already initialized" >>),
          initialized |-> init]
    ELSE IF ~UnmarshalOK(r.Params, InitializeRequest)
    THEN [out |-> sendError(r.ID, InvalidParams, << "Invalid initialization parameters" >>),
          initialized |-> init]
    ELSE [out |-> Success(r.ID,
                     MarshalInitializeResult(
                         [ProtocolVersion |-> LatestProtocolVersion,
                          Capabilities |-> ServerCapabilitiesValue,
                          ServerInfo |-> ServerInfo,
                          Instructions |-> "MCP server implemented in Go"])),
          initialized |-> TRUE]

\* Faulty variant: s.initialized is set before the parameters are decoded.
handleInitializeSetsFirst(r, init) ==
    IF ~UnmarshalOK(r.Params, InitializeRequest)
    THEN [out |-> sendError(r.ID, InvalidParams, << "Invalid initialization parameters" >>),
          initialized |-> TRUE]
    ELSE [out |-> Success(r.ID,
                     MarshalInitializeResult(
                         [ProtocolVersion |-> LatestProtocolVersion,
                          Capabilities |-> ServerCapabilitiesValue,
                          ServerInfo |-> ServerInfo,
                          Instructions |-> "MCP server implemented in Go"])),
          initialized |-> TRUE]

handleInitialize(r, init) ==
    IF ~UnmarshalOK(r.Params, InitializeRequest)
    THEN [out |-> sendError(r.ID, InvalidParams, << "Invalid initialization parameters" >>),
          initialized |-> init]
    ELSE [out |-> Success(r.ID,
                     MarshalInitializeResult(
                         [ProtocolVersion |-> LatestProtocolVersion,
                          Capabilities |-> ServerCapabilitiesValue,
                          ServerInfo |-> ServerInfo,
                          Instructions |-> "MCP server implemented in Go"])),
          initialized |-> TRUE]

handleToolsList(r, init, toolList) ==
    IF ~init
    THEN [out |-> NotInitialized(r.ID), initialized |-> init]
    ELSE [out |-> Success(r.ID, [tools |-> MarshalSlice(toolList)]), initialized |-> init]

\* Faulty variant: the parameters are decoded before s.initialized is tested.
handleToolsCallParamsFirst(r, init, toolList) ==
    IF ~UnmarshalOK(r.Params, CallToolRequest)
    THEN [out |-> sendError(r.ID, InvalidParams, << "Invalid tool call parameters" >>),
          initialized |-> init]
    ELSE IF ~init
    THEN [out |-> NotInitialized(r.ID), initialized |-> init]
    ELSE LET call == handleToolCall(toolList, CallToolName(r.Params),
                                    CallToolArguments(r.Params))
         IN  IF call.err # Nil
             THEN [out |-> sendError(r.ID, InternalError, call.err), initialized |-> init]
             ELSE [out |-> Success(r.ID, MarshalCallToolResult(call.result)),
                   initialized |-> init]

handleToolsCall(r, init, toolList) ==
    IF ~init
    THEN [out |-> NotInitialized(r.ID), initialized |-> init]
    ELSE IF ~UnmarshalOK(r.Params, CallToolRequest)
    THEN [out |-> sendError(r.ID, InvalidParams, << "Invalid tool call parameters" >>),
          initialized |-> init]
    ELSE LET call == handleToolCall(toolList, CallToolName(r.Params),
                                    CallToolArguments(r.Params))
         IN  IF call.err # Nil
             THEN [out |-> sendError(r.ID, InternalError, call.err), initialized |-> init]
             ELSE [out |-> Success(r.ID, MarshalCallToolResult(call.result)),
                   initialized |-> init]

\* Faulty variant: the s.initialized test is missing.
handleResourcesListUnguarded(r, init, resourceList) ==
    [out |-> Success(r.ID, [resources |-> MarshalSlice(resourceList)]),
     initialized |-> init]

handleResourcesList(r, init, resourceList) ==
    IF ~init
    THEN [out |-> NotInitialized(r.ID), initialized |-> init]
    ELSE [out |-> Success(r.ID, [resources |-> MarshalSlice(resourceList)]),
          initialized |-> init]

handleResourceTemplatesList(r, init, templateList) ==
    IF ~init
    THEN [out |-> NotInitialized(r.ID), initialized |-> init]
    ELSE [out |-> Success(r.ID, [resourceTemplates |-> MarshalSlice(templateList)]),
          initialized |-> init]

\* Faulty variant: ping tests s.initialized like the list methods.
handlePingGuarded(r, init) ==
    IF ~init
    THEN [out |-> NotInitialized(r.ID), initialized |-> init]
    ELSE [out |-> Success(r.ID, EmptyObject), initialized |-> init]

handlePing(r, init) == [out |-> Success(r.ID, EmptyObject), initialized |-> init]

\* Faulty variant: the default case tests s.initialized first.
handleDefaultGuarded(r, init) ==
    IF ~init
    THEN [out |-> NotInitialized(r.ID), initialized |-> init]
    ELSE [out |-> sendError(r.ID, MethodNotFound, << "Method not found: %s", r.Method >>),
          initialized |-> init]

handleDefault(r, init) ==
    [out |-> sendError(r.ID, MethodNotFound, << "Method not found: %s", r.Method >>),
     initialized |-> init]

handleRequest(r, init, toolList, resourceList, templateList) ==
    CASE r.Method = "initialize" -> handleInitialize(r, init)
      [] r.Method = "tools/list" -> handleToolsList(r, init, toolList)
      [] r.Method = "tools/call" -> handleToolsCall(r, init, toolList)
      [] r.Method = "resources/list" -> handleResourcesList(r, init, resourceList)
      [] r.Method = "resources/templates/list" ->
             handleResourceTemplatesList(r, init, templateList)
      [] r.Method = "ping" -> handlePing(r, init)
      [] OTHER -> handleDefault(r, init)


(***************************************************************************)
(* Inputs.  Request ids are nil (the "id" key absent or null), a number or *)
(* a string.  Method names are the six the switch names and two it does    *)
(* not.  Params are nil (absent), a JSON string, or JSON objects that      *)
(* do or do not decode into InitializeRequest and CallToolRequest.         *)
(***************************************************************************)
RequestIDs == { Nil, JNum(1), JStr("a") }

RecognizedMethods ==
    { "initialize", "tools/list", "tools/call", "resources/list",
      "resources/templates/list", "ping" }

Methods == RecognizedMethods \cup { "prompts/list", "notifications/initialized" }

ParamsValues ==
    { Nil,
      JStr("text"),
      JObj([name |-> JStr("scan"), arguments |-> JObj([target |-> JStr("host")])]),
      JObj([name |-> JStr("nmap")]),
      JObj([name |-> JNum(7)]),
      JObj([protocolVersion |-> JStr("2024-11-05"),
            clientInfo |-> JObj([name |-> JStr("client"), version |-> JStr("1")])]),
      JObj([protocolVersion |-> JStr("2024-11-05"),
            clientInfo |-> JObj([name |-> JNum(1)])]) }

Requests == [ID : RequestIDs, Method : Methods, Params : ParamsValues]

\* The zero JSONRPCRequest (var req JSONRPCRequest).
ZeroRequest == [ID |-> Nil, Method |-> "", Params |-> Nil]

Tools ==
    { [Name |-> "scan", Description |-> "first"],
      [Name |-> "scan", Description |-> "second"],
      [Name |-> "echo", Description |-> "first"] }

Resources == { [URI |-> "example://config", Name |-> "Configuration"] }

(***************************************************************************)
(* State.  initialized, tools, resources, templates are the Server's       *)
(* fields.  pc, decErr and linesLeft are the Start loop: its position, the *)
(* sticky error of its json.Decoder and the lines left on the input        *)
(* stream.  The remaining variables record the most recent call for the    *)
(* properties: op names it, req is the request it was given, pre the       *)
(* Server's fields when it was entered, and written the lines it wrote to  *)
(* the writer, in order.                                                   *)
(***************************************************************************)
VARIABLES initialized, tools, resources, templates,
          pc, decErr, linesLeft,
          op, req, pre, written

vars == << initialized, tools, resources, templates,
           pc, decErr, linesLeft, op, req, pre, written >>

(***************************************************************************)
(* State of the goroutines that share the Server with the Start loop, at   *)
(* the grain of its lock.  mu is Server.mu.  response is the response      *)
(* handleRequest has built and not yet written.  regpc and regArg are the  *)
(* position and the argument of the goroutine that registers tools and     *)
(* resources.                                                              *)
(***************************************************************************)
VARIABLES mu, response, regpc, regArg

regVars == << mu, response, regpc, regArg >>

(***************************************************************************)
(* sync.RWMutex: any number of readers or one writer.                      *)
(***************************************************************************)
Unlocked == [readers |-> {}, writer |-> {}]
CanRLock(m) == m.writer = {}
CanLock(m) == m.writer = {} /\ m.readers = {}
RLock(m, g) == [m EXCEPT !.readers = @ \cup {g}]
RUnlock(m, g) == [m EXCEPT !.readers = @ \ {g}]
Lock(m, g) == [m EXCEPT !.writer = {g}]
Unlock(m, g) == [m EXCEPT !.writer = @ \ {g}]

\* No call on the Server is in progress.
RegistryIdle ==
    /\ mu = Unlocked
    /\ response = << >>
    /\ regpc = "idle"
    /\ regArg = Nil

(***************************************************************************)
(* pkg/cache: a ResultCache and the goroutines calling it.  cache, expiry  *)
(* and lock are its fields.  now is the clock.  cpc and carg are each      *)
(* caller's position and arguments, ret what the most recent call          *)
(* returned.  entries records, for each key, the value and the time of the *)
(* most recent Set.                                                        *)
(***************************************************************************)
VARIABLES cache, expiry, lock, now, cpc, carg, ret, entries

cacheVars == << cache, expiry, lock, now, cpc, carg, ret, entries >>

Callers == { "a", "b" }

EmptyMap == [k \in {} |-> Nil]

NoRet == [op |-> "none"]

\* No ResultCache is in use.
CacheIdle ==
    /\ cache = EmptyMap
    /\ expiry = 0
    /\ lock = Unlocked
    /\ now = 0
    /\ cpc = [g \in Callers |-> "idle"]
    /\ carg = [g \in Callers |-> Nil]
    /\ ret = NoRet
    /\ entries = EmptyMap

(***************************************************************************)
(* pkg/scanner: the goroutines running Scan, ThreadSafeScan and BasicScan  *)
(* on one scannerServiceImpl.  spc is each one's position in its call,     *)
(* slocal the call's arguments and local variables, sret what the most     *)
(* recent call returned, scans the number of calls made so far.            *)
(***************************************************************************)
VARIABLES spc, slocal, sret, scans

scanVars == << spc, slocal, sret, scans >>

\* No scan has been asked for.
ScanIdle ==
    /\ spc = [g \in Callers |-> "idle"]
    /\ slocal = [g \in Callers |-> Nil]
    /\ sret = NoRet
    /\ scans = 0

(***************************************************************************)
(* Cache keys taken as values: keyed is the most recent computation of a   *)
(* cache key (who computed it, from what, the key), prev the one before.   *)
(***************************************************************************)
VARIABLES keyed, prev

keyVars == << keyed, prev >>

NoKey == [fn |-> "none"]

\* No key has been computed.
KeysIdle ==
    /\ keyed = NoKey
    /\ prev = NoKey

(***************************************************************************)
(* One engine execution and the threads from which it invokes the result   *)
(* callback.  findings and findingsMutex are the variables the callback    *)
(* closes over.  tpc and tlocal are each thread's position in the callback *)
(* and its local state, invoked the events the callback has been invoked   *)
(* with, returnedFindings the findings of the ScanResult once the          *)
(* execution has returned.                                                 *)
(***************************************************************************)
VARIABLES findings, findingsMutex, tpc, tlocal, invoked, returnedFindings

callbackVars == << findings, findingsMutex, tpc, tlocal, invoked,
                   returnedFindings >>

Threads == { "t1", "t2", "t3" }

\* No engine is executing.
CallbackIdle ==
    /\ findings = << >>
    /\ findingsMutex = {}
    /\ tpc = [t \in Threads |-> "idle"]
    /\ tlocal = [t \in Threads |-> Nil]
    /\ invoked = {}
    /\ returnedFindings = [returned |-> FALSE, Findings |-> << >>]

(***************************************************************************)
(* pkg/logging: the tool and resource handlers of the nuclei server, each  *)
(* call taken as a whole.  hargs is the argument map of the most recent    *)
(* call, hscans the calls it made on the ScannerService, hret what it      *)
(* returned.                                                               *)
(***************************************************************************)
VARIABLES hargs, hscans, hret

handlerVars == << hargs, hscans, hret >>

\* No handler has been called.
HandlerIdle ==
    /\ hargs = Nil
    /\ hscans = << >>
    /\ hret = NoRet

(***************************************************************************)
(* nuclei/nuclei_mcp.go: the ScannerPool and the                           *)
(* VulnerabilityReportsProvider.  scanners is the content of the channel   *)
(* p.scanners and chanClosed whether it has been closed; made counts the   *)
(* engines created so far, engineClosed is the set of engines on which     *)
(* Close has been called; ppc and held are each scanning goroutine's       *)
(* position and the engine it got; pret is what the most recent pool       *)
(* operation returned.  recentResults is the provider's slice, added the   *)
(* results handed to AddResult so far, presented what GetResource listed.  *)
(***************************************************************************)
VARIABLES scanners, chanClosed, made, engineClosed, ppc, held, pret,
          recentResults, added, presented

poolVars == << scanners, chanClosed, made, engineClosed, ppc, held, pret >>

providerVars == << recentResults, added, presented >>

nucleiVars == << poolVars, providerVars >>

\* The goroutines that scan through the pool.
PoolCallers == { "a", "b", "c" }

\* No pool and no provider has been made.
NucleiIdle ==
    /\ scanners = << >>
    /\ chanClosed = FALSE
    /\ made = 0
    /\ engineClosed = {}
    /\ ppc = [g \in PoolCallers |-> "idle"]
    /\ held = [g \in PoolCallers |-> Nil]
    /\ pret = NoRet
    /\ recentResults = << >>
    /\ added = << >>
    /\ presented = NoRet

Fields == [initialized |-> initialized, tools |-> tools,
           resources |-> resources, templates |-> templates]

\* NewServer, and a Start loop about to read a stream of at most MaxLines lines.
Init ==
    /\ initialized = FALSE
    /\ tools = << >>
    /\ resources = << >>
    /\ templates = << >>
    /\ pc = "decode"
    /\ decErr = FALSE
    /\ linesLeft \in 0..MaxLines
    /\ op = "NewServer"
    /\ req = ZeroRequest
    /\ pre = [initialized |-> FALSE, tools |-> << >>,
              resources |-> << >>, templates |-> << >>]
    /\ written = << >>
    /\ RegistryIdle
    /\ CacheIdle
    /\ ScanIdle
    /\ KeysIdle
    /\ CallbackIdle
    /\ HandlerIdle
    /\ NucleiIdle

(***************************************************************************)
(* Server.Start, one action per outcome of an iteration of its loop.       *)
(***************************************************************************)
\* decoder.Decode yields a request: handleRequest answers it.
StartRequest ==
    /\ pc = "decode" /\ ~decErr /\ linesLeft > 0
    /\ \E r \in Requests :
          LET res == handleRequest(r, initialized, tools, resources, templates)
          IN  /\ req' = r
              /\ initialized' = res.initialized
              /\ written' = res.out
    /\ linesLeft' = linesLeft - 1
    /\ op' = "handleRequest"
    /\ pre' = Fields
    /\ UNCHANGED << tools, resources, templates, pc, decErr >>

\* The line is a JSON value that does not fit JSONRPCRequest (an
\* UnmarshalTypeError): logged, the value is consumed, the loop continues.
StartTypeError ==
    /\ pc = "decode" /\ ~decErr /\ linesLeft > 0
    /\ linesLeft' = linesLeft - 1
    /\ op' = "decodeTypeError"
    /\ req' = ZeroRequest
    /\ pre' = Fields
    /\ written' = << >>
    /\ UNCHANGED << initialized, tools, resources, templates, pc, decErr >>

\* The line is not JSON: the decoder records the syntax error, which every
\* later Decode returns again without reading further.
StartSyntaxError ==
    /\ pc = "decode" /\ ~decErr /\ linesLeft > 0
    /\ decErr' = TRUE
    /\ op' = "decodeSyntaxError"
    /\ req' = ZeroRequest
    /\ pre' = Fields
    /\ written' = << >>
    /\ UNCHANGED << initialized, tools, resources, templates, pc, linesLeft >>

\* Decode returns the recorded syntax error: logged, continue.
StartStuck ==
    /\ pc = "decode" /\ decErr
    /\ op' = "decodeStuck"
    /\ req' = ZeroRequest
    /\ pre' = Fields
    /\ written' = << >>
    /\ UNCHANGED << initialized, tools, resources, templates, pc, decErr, linesLeft >>

\* Decode returns io.EOF: break.
StartEOF ==
    /\ pc = "decode" /\ ~decErr /\ linesLeft = 0
    /\ pc' = "done"
    /\ op' = "EOF"
    /\ req' = ZeroRequest
    /\ pre' = Fields
    /\ written' = << >>
    /\ UNCHANGED << initialized, tools, resources, templates, decErr, linesLeft >>

(***************************************************************************)
(* Server.RegisterTool and Server.RegisterResource, called by the owner of *)
(* the Server before or while Start runs.                                  *)
(***************************************************************************)
RegisterTool ==
    /\ Len(tools) < MaxTools
    /\ \E tool \in Tools : tools' = Append(tools, tool)
    /\ written' = sendNotification("notifications/tools/list_changed")
    /\ op' = "RegisterTool"
    /\ req' = ZeroRequest
    /\ pre' = Fields
    /\ UNCHANGED << initialized, resources, templates, pc, decErr, linesLeft >>

RegisterResource ==
    /\ Len(resources) < MaxResources
    /\ \E resource \in Resources : resources' = Append(resources, resource)
    /\ written' = sendNotification("notifications/resources/list_changed")
    /\ op' = "RegisterResource"
    /\ req' = ZeroRequest
    /\ pre' = Fields
    /\ UNCHANGED << initialized, tools, templates, pc, decErr, linesLeft >>

Next ==
    \/ StartRequest /\ UNCHANGED << regVars, cacheVars, scanVars, keyVars, callbackVars, handlerVars, nucleiVars >>
    \/ StartTypeError /\ UNCHANGED << regVars, cacheVars, scanVars, keyVars, callbackVars, handlerVars, nucleiVars >>
    \/ StartSyntaxError /\ UNCHANGED << regVars, cacheVars, scanVars, keyVars, callbackVars, handlerVars, nucleiVars >>
    \/ StartStuck /\ UNCHANGED << regVars, cacheVars, scanVars, keyVars, callbackVars, handlerVars, nucleiVars >>
    \/ StartEOF /\ UNCHANGED << regVars, cacheVars, scanVars, keyVars, callbackVars, handlerVars, nucleiVars >>
    \/ RegisterTool /\ UNCHANGED << regVars, cacheVars, scanVars, keyVars, callbackVars, handlerVars, nucleiVars >>
    \/ RegisterResource /\ UNCHANGED << regVars, cacheVars, scanVars, keyVars, callbackVars, handlerVars, nucleiVars >>

\* The Start loop and the registrations, each call taken as a whole.
Spec == Init /\ [][Next]_<< vars, regVars, cacheVars, scanVars, keyVars, callbackVars, handlerVars, nucleiVars >>

TypeOK ==
    /\ initialized \in BOOLEAN
    /\ Len(tools) <= MaxTools
    /\ Len(resources) <= MaxResources
    /\ templates = << >>
    /\ pc \in { "decode", "done" }
    /\ linesLeft \in 0..MaxLines


(***************************************************************************)
(* Vocabulary of the properties.                                           *)
(***************************************************************************)
\* The most recent call was handleRequest, given req with the fields pre.
Handled == op = "handleRequest"

\* A written line is a response when it carries "id" (notifications do not).
IsResponse(m) == "id" \in DOMAIN m
HasResult(m) == "result" \in DOMAIN m
HasError(m) == "error" \in DOMAIN m

\* handleRequest wrote exactly one line, a response answering req.
OneResponse == Len(written) = 1 /\ IsResponse(written[1]) /\ written[1].id = req.ID

\* handleRequest wrote exactly one line, an error response with this code.
FailedWith(code) ==
    /\ Len(written) = 1
    /\ IsResponse(written[1])
    /\ HasError(written[1])
    /\ ~HasResult(written[1])
    /\ written[1].error.code = code

\* handleRequest wrote exactly one line, a response with a result.
Succeeded ==
    /\ Len(written) = 1
    /\ IsResponse(written[1])
    /\ HasResult(written[1])
    /\ ~HasError(written[1])

GuardedMethods ==
    { "tools/list", "tools/call", "resources/list", "resources/templates/list" }

\* handleRequest left every field of the Server as it found it.
FieldsUnchanged == Fields = pre


(***************************************************************************)
(* C1.  Every request that carries an id and is handled once the server is *)
(* initialized is answered by exactly one response, whose id is the        *)
(* request's id, whatever the method, the params and the outcome.          *)
(***************************************************************************)
C1_ExactlyOneResponse ==
    (Handled /\ pre.initialized /\ req.ID # Nil) => OneResponse

\* An initialized server answered a failing request that has a string id.
C1_Witness ==
    /\ Handled /\ pre.initialized /\ req.ID = JStr("a")
    /\ OneResponse /\ HasError(written[1])

(***************************************************************************)
(* C2.  A message without an id (a notification) is never answered:        *)
(* handleRequest writes nothing for it.                                    *)
(***************************************************************************)
C2_NotificationUnanswered ==
    (Handled /\ req.ID = Nil) => written = << >>

(***************************************************************************)
(* C3.  Every response written carries exactly one of "result" and         *)
(* "error", for every method, in both states, with any registry.           *)
(***************************************************************************)
C3_ResultXorError ==
    \A i \in 1..Len(written) :
        IsResponse(written[i]) => (HasResult(written[i]) # HasError(written[i]))

\* ping answered by an uninitialized server with an empty registry.
C3_Witness ==
    /\ Handled /\ ~pre.initialized /\ req.Method = "ping"
    /\ tools = << >> /\ resources = << >>
    /\ OneResponse /\ HasResult(written[1]) /\ ~HasError(written[1])

(***************************************************************************)
(* C4.  The server starts uninitialized, becomes initialized only by an    *)
(* initialize request that succeeds, and never leaves the initialized      *)
(* state, whatever is handled or registered afterwards.                    *)
(***************************************************************************)
C4_InitializedOneWay ==
    /\ ~initialized
    /\ [][ /\ initialized => initialized'
           /\ (~initialized /\ initialized') =>
                  /\ op' = "handleRequest"
                  /\ req'.Method = "initialize"
                  /\ Len(written') = 1
                  /\ HasResult(written'[1]) ]_vars

\* An initialized server rejected an initialize request and stayed initialized.
C4_Witness ==
    /\ Handled /\ pre.initialized /\ req.Method = "initialize"
    /\ FailedWith(InvalidParams)
    /\ initialized

(***************************************************************************)
(* C5.  As claimed: before initialize has succeeded, every method other    *)
(* than initialize and ping fails with InvalidRequest, the names the       *)
(* dispatcher does not recognize included.                                 *)
(***************************************************************************)
C5_Original ==
    (Handled /\ ~pre.initialized /\ req.Method \notin { "initialize", "ping" })
        => FailedWith(InvalidRequest)

(***************************************************************************)
(* C5, amended.  Before initialize has succeeded, each of tools/list,      *)
(* tools/call, resources/list and resources/templates/list fails with      *)
(* InvalidRequest, whatever its params.                                    *)
(***************************************************************************)
C5_GuardedMethodsRejected ==
    (Handled /\ ~pre.initialized /\ req.Method \in GuardedMethods)
        => FailedWith(InvalidRequest)

\* tools/call with params that would not decode, rejected for the state.
C5_Witness ==
    /\ Handled /\ ~pre.initialized /\ req.Method = "tools/call"
    /\ ~UnmarshalOK(req.Params, CallToolRequest)
    /\ FailedWith(InvalidRequest)

(***************************************************************************)
(* C6.  As claimed: ping fails with InvalidRequest before initialize and   *)
(* returns an empty result after it.                                       *)
(***************************************************************************)
C6_Original ==
    (Handled /\ req.Method = "ping") =>
        IF pre.initialized
        THEN Succeeded /\ written[1].result = EmptyObject
        ELSE FailedWith(InvalidRequest)

(***************************************************************************)
(* C6, amended.  ping returns an empty result in both states, before and   *)
(* after initialize, and leaves the state as it is.                        *)
(***************************************************************************)
C6_PingAlwaysAnswers ==
    (Handled /\ req.Method = "ping") =>
        /\ Succeeded
        /\ written[1].result = EmptyObject
        /\ initialized = pre.initialized

\* ping answered with {} by a server that is not initialized.
C6_Witness ==
    /\ Handled /\ req.Method = "ping" /\ ~pre.initialized /\ ~initialized
    /\ Succeeded /\ written[1].result = EmptyObject

(***************************************************************************)
(* C7.  tools/list, tools/call, resources/list, resources/templates/list   *)
(* fail with InvalidRequest exactly when the server is uninitialized, and  *)
(* an uninitialized server returns no result (no registry content).        *)
(***************************************************************************)
C7_InvalidRequestIffUninitialized ==
    (Handled /\ req.Method \in GuardedMethods) =>
        /\ OneResponse
        /\ FailedWith(InvalidRequest) <=> ~pre.initialized
        /\ (HasError(written[1]) /\ written[1].error.code = InvalidRequest)
               <=> ~pre.initialized
        /\ ~pre.initialized => ~HasResult(written[1])

\* An initialized server failed a tools/call with another code.
C7_Witness ==
    /\ Handled /\ pre.initialized /\ req.Method = "tools/call"
    /\ FailedWith(InvalidParams)

(***************************************************************************)
(* C8.  A method name outside the recognized ones fails with               *)
(* MethodNotFound, in the uninitialized and in the initialized state.      *)
(***************************************************************************)
C8_UnknownMethodNotFound ==
    (Handled /\ req.Method \notin RecognizedMethods) =>
        /\ FailedWith(MethodNotFound)
        /\ written[1].error.message = << "Method not found: %s", req.Method >>

\* An unrecognized method answered by an uninitialized server.
C8_Witness ==
    /\ Handled /\ ~pre.initialized /\ req.Method = "prompts/list"
    /\ FailedWith(MethodNotFound)

(***************************************************************************)
(* C9.  An initialized server answers tools/call for a name no registered  *)
(* tool carries with an InternalError response whose message names the     *)
(* tool, never with a result; its fields are unchanged and the loop is     *)
(* ready to decode and answer the next request.                            *)
(***************************************************************************)
NoToolNamed(toolList, name) == \A i \in 1..Len(toolList) : toolList[i].Name # name

C9_UnknownToolFails ==
    ( /\ Handled /\ pre.initialized /\ req.Method = "tools/call"
      /\ UnmarshalOK(req.Params, CallToolRequest)
      /\ NoToolNamed(pre.tools, CallToolName(req.Params)) ) =>
        /\ OneResponse
        /\ FailedWith(InternalError)
        /\ written[1].error.message = << "tool not found: %s", CallToolName(req.Params) >>
        /\ FieldsUnchanged
        /\ pc = "decode" /\ ~decErr
        /\ linesLeft > 0 => ENABLED StartRequest

\* tools/call "nmap" on an initialized server whose registry holds another tool,
\* with a line left to read.
C9_Witness ==
    /\ Handled /\ pre.initialized /\ req.Method = "tools/call"
    /\ CallToolName(req.Params) = "nmap"
    /\ Len(tools) > 0
    /\ FailedWith(InternalError)
    /\ linesLeft > 0

(***************************************************************************)
(* C10.  initialize with params that decode into InitializeRequest always  *)
(* succeeds, in either state; the result carries protocolVersion,          *)
(* capabilities, serverInfo and instructions; the server is initialized    *)
(* afterwards.                                                             *)
(***************************************************************************)
C10_InitializeSucceeds ==
    (Handled /\ req.Method = "initialize" /\ UnmarshalOK(req.Params, InitializeRequest)) =>
        /\ OneResponse
        /\ Succeeded
        /\ { "protocolVersion", "capabilities", "serverInfo", "instructions" }
               \subseteq DOMAIN written[1].result
        /\ written[1].result.protocolVersion = LatestProtocolVersion
        /\ initialized

\* A second initialize, on a server that was already initialized.
C10_Witness ==
    /\ Handled /\ req.Method = "initialize" /\ pre.initialized
    /\ req.Params # Nil
    /\ Succeeded /\ initialized


(***************************************************************************)
(* The Server at the grain of its lock: handleRequest running in the Start *)
(* loop while another goroutine calls RegisterTool and RegisterResource.   *)
(*                                                                         *)
(* s.tools = append(s.tools, tool) is not one memory write: between its    *)
(* beginning and its end the new element is Torn, and only Server.mu keeps *)
(* a reader from seeing it.  handleRequest reads the collections under     *)
(* RLock, keeps what it read in its response, and writes the response      *)
(* after RUnlock.                                                          *)
(***************************************************************************)
MaxRegistered == 2   \* RegisterTool calls while the loop runs

Torn == [Name |-> "(torn)", Description |-> "(torn)"]
TornResource == [URI |-> "(torn)", Name |-> "(torn)"]

\* The collection without an element whose append has not finished.
Committed(list, torn) ==
    IF Len(list) > 0 /\ list[Len(list)] = torn
    THEN SubSeq(list, 1, Len(list) - 1)
    ELSE list

CommittedFields ==
    [initialized |-> initialized,
     tools |-> Committed(tools, Torn),
     resources |-> Committed(resources, TornResource),
     templates |-> templates]

ListMethods == { "tools/list", "resources/list", "resources/templates/list" }

RegistryRequests ==
    { r \in Requests :
        /\ r.ID = JNum(1)
        /\ r.Method \in ListMethods \cup { "initialize", "tools/call" }
        /\ r.Params \in { Nil, JObj([name |-> JStr("nmap")]) } }

\* Faulty variant: the collections are read without s.mu.RLock().
HandlerCanReadUnlocked(r, init, m) == TRUE

\* handleRequest can take the read lock its case needs: the list cases and
\* handleToolCall call s.mu.RLock() once the server is initialized (and, for
\* tools/call, the params decoded).
HandlerCanRead(r, init, m) ==
    IF init /\ ( \/ r.Method \in ListMethods
                 \/ r.Method = "tools/call" /\ UnmarshalOK(r.Params, CallToolRequest) )
    THEN CanRLock(m)
    ELSE TRUE

\* Start: Decode yields a request and handleRequest is entered.
ReqArrive ==
    /\ pc = "decode" /\ linesLeft > 0
    /\ \E r \in RegistryRequests : req' = r
    /\ pre' = CommittedFields
    /\ linesLeft' = linesLeft - 1
    /\ pc' = "handle"
    /\ op' = "Decode"
    /\ written' = << >>
    /\ UNCHANGED << initialized, tools, resources, templates, decErr, regVars >>

\* handleRequest up to sendResponse: the switch case, with its RLock and
\* RUnlock around the read of the collection.
ReqHandle ==
    /\ pc = "handle"
    /\ HandlerCanRead(req, initialized, mu)
    /\ LET res == handleRequest(req, initialized, tools, resources, templates)
       IN  /\ response' = res.out
           /\ initialized' = res.initialized
    /\ pc' = "respond"
    /\ UNCHANGED << tools, resources, templates, decErr, linesLeft,
                    op, req, pre, written, mu, regpc, regArg >>

\* sendResponse: the response is marshalled and written.
ReqRespond ==
    /\ pc = "respond"
    /\ written' = response
    /\ response' = << >>
    /\ op' = "handleRequest"
    /\ pc' = "decode"
    /\ UNCHANGED << initialized, tools, resources, templates, decErr, linesLeft,
                    req, pre, mu, regpc, regArg >>

\* RegisterTool: s.mu.Lock() taken, the append begun.
RegToolBegin ==
    /\ regpc = "idle" /\ CanLock(mu) /\ Len(tools) < MaxRegistered
    /\ \E tool \in Tools : regArg' = tool
    /\ mu' = Lock(mu, "registrar")
    /\ tools' = Append(tools, Torn)
    /\ regpc' = "appendTool"
    /\ UNCHANGED << initialized, resources, templates, pc, decErr, linesLeft,
                    op, req, pre, written, response >>

\* RegisterTool: the append finished, s.mu.Unlock().
RegToolEnd ==
    /\ regpc = "appendTool"
    /\ tools' = [tools EXCEPT ![Len(tools)] = regArg]
    /\ mu' = Unlock(mu, "registrar")
    /\ regpc' = "notifyTool"
    /\ UNCHANGED << initialized, resources, templates, pc, decErr, linesLeft,
                    op, req, pre, written, response, regArg >>

\* RegisterTool: sendNotification.
RegToolNotify ==
    /\ regpc = "notifyTool"
    /\ written' = sendNotification("notifications/tools/list_changed")
    /\ op' = "RegisterTool"
    /\ regpc' = "idle"
    /\ UNCHANGED << initialized, tools, resources, templates, pc, decErr, linesLeft,
                    req, pre, mu, response, regArg >>

\* RegisterResource: s.mu.Lock() taken, the append begun.
RegResourceBegin ==
    /\ regpc = "idle" /\ CanLock(mu) /\ Len(resources) < MaxResources
    /\ \E resource \in Resources : regArg' = resource
    /\ mu' = Lock(mu, "registrar")
    /\ resources' = Append(resources, TornResource)
    /\ regpc' = "appendResource"
    /\ UNCHANGED << initialized, tools, templates, pc, decErr, linesLeft,
                    op, req, pre, written, response >>

\* RegisterResource: the append finished, s.mu.Unlock().
RegResourceEnd ==
    /\ regpc = "appendResource"
    /\ resources' = [resources EXCEPT ![Len(resources)] = regArg]
    /\ mu' = Unlock(mu, "registrar")
    /\ regpc' = "notifyResource"
    /\ UNCHANGED << initialized, tools, templates, pc, decErr, linesLeft,
                    op, req, pre, written, response, regArg >>

\* RegisterResource: sendNotification.
RegResourceNotify ==
    /\ regpc = "notifyResource"
    /\ written' = sendNotification("notifications/resources/list_changed")
    /\ op' = "RegisterResource"
    /\ regpc' = "idle"
    /\ UNCHANGED << initialized, tools, resources, templates, pc, decErr, linesLeft,
                    req, pre, mu, response, regArg >>

RegistryNext ==
    \/ ReqArrive /\ UNCHANGED << cacheVars, scanVars, keyVars, callbackVars, handlerVars, nucleiVars >>
    \/ ReqHandle /\ UNCHANGED << cacheVars, scanVars, keyVars, callbackVars, handlerVars, nucleiVars >>
    \/ ReqRespond /\ UNCHANGED << cacheVars, scanVars, keyVars, callbackVars, handlerVars, nucleiVars >>
    \/ RegToolBegin /\ UNCHANGED << cacheVars, scanVars, keyVars, callbackVars, handlerVars, nucleiVars >>
    \/ RegToolEnd /\ UNCHANGED << cacheVars, scanVars, keyVars, callbackVars, handlerVars, nucleiVars >>
    \/ RegToolNotify /\ UNCHANGED << cacheVars, scanVars, keyVars, callbackVars, handlerVars, nucleiVars >>
    \/ RegResourceBegin /\ UNCHANGED << cacheVars, scanVars, keyVars, callbackVars, handlerVars, nucleiVars >>
    \/ RegResourceEnd /\ UNCHANGED << cacheVars, scanVars, keyVars, callbackVars, handlerVars, nucleiVars >>
    \/ RegResourceNotify /\ UNCHANGED << cacheVars, scanVars, keyVars, callbackVars, handlerVars, nucleiVars >>

\* The Start loop and a registering goroutine, interleaved at the lock.
SpecRegistry ==
    Init /\ [][RegistryNext]_<< vars, regVars, cacheVars, scanVars, keyVars, callbackVars, handlerVars, nucleiVars >>


IsPrefix(a, b) == Len(a) <= Len(b) /\ SubSeq(b, 1, Len(a)) = a

\* The elements of a marshalled collection (a nil slice is written as null).
ListItems(v) == IF v = Nil THEN << >> ELSE v.items

Listed(method) ==
    /\ op = "handleRequest"
    /\ req.Method = method
    /\ Succeeded

IsNotification(line, method) ==
    /\ DOMAIN line = { "jsonrpc", "method" }
    /\ line.jsonrpc = JsonRpcVersion
    /\ line.method = method

\* The registration call has just returned.
Registered(call) == op = call /\ regpc = "idle"

\* C11: a RegisterTool call writes exactly one line, the notification
\* notifications/tools/list_changed with no id, and a RegisterResource call
\* exactly one notifications/resources/list_changed; when the line is written
\* the item is already in the registry; and a registration that has taken the
\* lock always runs to its end.
C11_RegistrationNotifies ==
    /\ Registered("RegisterTool") =>
          /\ Len(written) = 1
          /\ IsNotification(written[1], "notifications/tools/list_changed")
          /\ \E i \in 1..Len(tools) : tools[i] = regArg
    /\ Registered("RegisterResource") =>
          /\ Len(written) = 1
          /\ IsNotification(written[1], "notifications/resources/list_changed")
          /\ \E i \in 1..Len(resources) : resources[i] = regArg
    /\ regpc = "appendTool" => ENABLED RegToolEnd
    /\ regpc = "notifyTool" => ENABLED RegToolNotify
    /\ regpc = "appendResource" => ENABLED RegResourceEnd
    /\ regpc = "notifyResource" => ENABLED RegResourceNotify

\* A second tool has just been announced while a request is being handled.
C11_Witness ==
    /\ Registered("RegisterTool")
    /\ pc = "respond"
    /\ Len(tools) = 2
    /\ tools[2] = regArg

\* C12: the list a list method returns is the registry as it stood at one
\* instant between the request's arrival and its response: it extends the
\* registry found on arrival, is extended by the registry at the response,
\* and holds no element whose append was in progress.
C12_ListIsSnapshot ==
    /\ Listed("tools/list") =>
          LET list == ListItems(written[1].result.tools)
          IN  /\ IsPrefix(pre.tools, list)
              /\ IsPrefix(list, Committed(tools, Torn))
              /\ \A i \in 1..Len(list) : list[i] \in Tools
    /\ Listed("resources/list") =>
          LET list == ListItems(written[1].result.resources)
          IN  /\ IsPrefix(pre.resources, list)
              /\ IsPrefix(list, Committed(resources, TornResource))
              /\ \A i \in 1..Len(list) : list[i] \in Resources
    /\ Listed("resources/templates/list") =>
          ListItems(written[1].result.resourceTemplates) = templates

\* A tools/list whose answer is strictly between the registry on arrival and
\* the registry at the response, a further registration being under way.
C12_Witness ==
    /\ Listed("tools/list")
    /\ pre.tools = << >>
    /\ Len(ListItems(written[1].result.tools)) = 1
    /\ Len(tools) = 2

\* C13: tools/list holds at most one tool of any name (a registration under
\* a name already taken replaces the earlier one).
C13_NamesUnique ==
    Listed("tools/list") =>
        LET list == ListItems(written[1].result.tools)
        IN  \A i, j \in 1..Len(list) : list[i].Name = list[j].Name => i = j


(***************************************************************************)
(* pkg/cache: ResultCache.                                                 *)
(*                                                                         *)
(* Time is a counter of clock ticks.  A ScanResult handed to Set carries   *)
(* the ScanTime its maker read from the clock, so one not later than the   *)
(* time of the Set; how much earlier is not bounded (scanner.go reads      *)
(* time.Now() some statements before it calls Set).                        *)
(***************************************************************************)
MaxTime == 3     \* clock ticks
MaxExpiry == 1   \* largest expiry a ResultCache is built with

Keys == { "k1", "k2" }

FindingsValues == { << >>, << "finding" >> }

\* The ScanResult values a caller can hold at time t (a string is written
\* as the sequence of its characters).
ScanResults(t) ==
    { [Target |-> << "a" >>, ScanTime |-> st, Findings |-> f] :
        st \in 0..t, f \in FindingsValues }

\* ScanResult{}: the zero time is before every reading of the clock.
ZeroScanResult == [Target |-> << >>, ScanTime |-> 0 - 1, Findings |-> << >>]

\* What a read of the map finds at a key whose write is in progress.
TornResult == [Target |-> << "(torn)" >>, ScanTime |-> 0, Findings |-> << >>]

\* Faulty variant: a key already stored keeps its value.
PutIfAbsent(c, key, v) ==
    [k \in DOMAIN c \cup { key } |-> IF k \in DOMAIN c THEN c[k] ELSE v]

\* c[key] = v on a map.
Put(c, key, v) == [k \in DOMAIN c \cup { key } |-> IF k = key THEN v ELSE c[k]]

\* Faulty variant: a result expires one tick late.
GetExpiresLate(c, key, t, exp) ==
    IF key \notin DOMAIN c
    THEN [result |-> ZeroScanResult, found |-> FALSE, cache |-> c]
    ELSE IF t - c[key].ScanTime > exp + 1
         THEN [result |-> ZeroScanResult, found |-> FALSE, cache |-> c]
         ELSE [result |-> c[key], found |-> TRUE, cache |-> c]

\* Faulty variant: an expired entry is deleted when Get finds it.
GetPurging(c, key, t, exp) ==
    IF key \notin DOMAIN c
    THEN [result |-> ZeroScanResult, found |-> FALSE, cache |-> c]
    ELSE IF t - c[key].ScanTime > exp
         THEN [result |-> ZeroScanResult, found |-> FALSE,
               cache |-> [k \in DOMAIN c \ { key } |-> c[k]]]
         ELSE [result |-> c[key], found |-> TRUE, cache |-> c]

\* ResultCache.Get between RLock and RUnlock, at time t: what it returns and
\* the map it leaves.
Get(c, key, t, exp) ==
    IF key \notin DOMAIN c
    THEN [result |-> ZeroScanResult, found |-> FALSE, cache |-> c]
    ELSE IF t - c[key].ScanTime > exp
         THEN [result |-> ZeroScanResult, found |-> FALSE, cache |-> c]
         ELSE [result |-> c[key], found |-> TRUE, cache |-> c]

\* The orders in which a range over a map with these keys can visit them.
Orders(keys) ==
    { o \in [1..Cardinality(keys) -> keys] :
        \A i, j \in 1..Cardinality(keys) : o[i] = o[j] => i = j }

\* Faulty variant: GetAll leaves out the entries Get would call expired.
GetAllFresh(c, order, t, exp) ==
    LET all == [i \in 1..Len(order) |-> c[order[i]]]
    IN  SelectSeq(all, LAMBDA r : t - r.ScanTime <= exp)

\* ResultCache.GetAll, the range visiting the keys in this order.
GetAll(c, order, t, exp) == [i \in 1..Len(order) |-> c[order[i]]]

\* Faulty variant: Set takes the lock as a reader does.
SetCanEnterShared(m) == CanRLock(m)

\* c.lock.Lock() returns.
SetCanEnter(m) == CanLock(m)

\* A server on which nothing is called.
ServerIdle ==
    /\ initialized = FALSE
    /\ tools = << >>
    /\ resources = << >>
    /\ templates = << >>
    /\ pc = "decode"
    /\ decErr = FALSE
    /\ linesLeft = 0
    /\ op = "NewServer"
    /\ req = ZeroRequest
    /\ pre = [initialized |-> FALSE, tools |-> << >>,
              resources |-> << >>, templates |-> << >>]
    /\ written = << >>
    /\ RegistryIdle

\* NewResultCache, beside a server and a scanner on which nothing is called.
CacheInit ==
    /\ ServerIdle
    /\ ScanIdle
    /\ KeysIdle
    /\ CallbackIdle
    /\ HandlerIdle
    /\ NucleiIdle
    /\ cache = EmptyMap
    /\ expiry \in 0..MaxExpiry
    /\ lock = Unlocked
    /\ now = 0
    /\ cpc = [g \in Callers |-> "idle"]
    /\ carg = [g \in Callers |-> Nil]
    /\ ret = NoRet
    /\ entries = EmptyMap

\* Get: c.lock.RLock() returns.
GetBegin(g) ==
    /\ cpc[g] = "idle" /\ CanRLock(lock)
    /\ \E key \in Keys : carg' = [carg EXCEPT ![g] = [key |-> key]]
    /\ lock' = RLock(lock, g)
    /\ cpc' = [cpc EXCEPT ![g] = "Get"]
    /\ ret' = NoRet
    /\ UNCHANGED << cache, expiry, now, entries >>

\* Get: the lookup, the expiry test, the deferred RUnlock.
GetReturn(g) ==
    /\ cpc[g] = "Get"
    /\ LET r == Get(cache, carg[g].key, now, expiry)
       IN  /\ cache' = r.cache
           /\ ret' = [op |-> "Get", key |-> carg[g].key, result |-> r.result,
                      found |-> r.found, before |-> cache]
    /\ lock' = RUnlock(lock, g)
    /\ cpc' = [cpc EXCEPT ![g] = "idle"]
    /\ carg' = [carg EXCEPT ![g] = Nil]
    /\ UNCHANGED << expiry, now, entries >>

\* Set: c.lock.Lock() returns and the map write begins.
SetBegin(g) ==
    /\ cpc[g] = "idle" /\ SetCanEnter(lock)
    /\ \E key \in Keys, result \in ScanResults(now) :
          /\ carg' = [carg EXCEPT ![g] = [key |-> key, result |-> result]]
          /\ cache' = Put(cache, key, TornResult)
    /\ lock' = Lock(lock, g)
    /\ cpc' = [cpc EXCEPT ![g] = "Set"]
    /\ ret' = NoRet
    /\ UNCHANGED << expiry, now, entries >>

\* Set: the map write ends, the deferred Unlock.
SetReturn(g) ==
    /\ cpc[g] = "Set"
    /\ cache' = Put(cache, carg[g].key, carg[g].result)
    /\ entries' = Put(entries, carg[g].key,
                      [value |-> carg[g].result, createdAt |-> now])
    /\ ret' = [op |-> "Set", key |-> carg[g].key, result |-> carg[g].result]
    /\ lock' = Unlock(lock, g)
    /\ cpc' = [cpc EXCEPT ![g] = "idle"]
    /\ carg' = [carg EXCEPT ![g] = Nil]
    /\ UNCHANGED << expiry, now >>

\* GetAll: c.lock.RLock() returns.
GetAllBegin(g) ==
    /\ cpc[g] = "idle" /\ CanRLock(lock)
    /\ lock' = RLock(lock, g)
    /\ cpc' = [cpc EXCEPT ![g] = "GetAll"]
    /\ ret' = NoRet
    /\ UNCHANGED << cache, expiry, now, carg, entries >>

\* GetAll: the range over the map, the deferred RUnlock.
GetAllReturn(g) ==
    /\ cpc[g] = "GetAll"
    /\ \E order \in Orders(DOMAIN cache) :
          ret' = [op |-> "GetAll", results |-> GetAll(cache, order, now, expiry)]
    /\ lock' = RUnlock(lock, g)
    /\ cpc' = [cpc EXCEPT ![g] = "idle"]
    /\ UNCHANGED << cache, expiry, now, carg, entries >>

\* The clock advances.
Tick ==
    /\ now < MaxTime
    /\ now' = now + 1
    /\ ret' = NoRet
    /\ UNCHANGED << cache, expiry, lock, cpc, carg, entries >>

serverVars == << vars, regVars >>

CacheNext ==
    \/ \E g \in Callers : GetBegin(g) /\ UNCHANGED << serverVars, scanVars, keyVars, callbackVars, handlerVars, nucleiVars >>
    \/ \E g \in Callers : GetReturn(g) /\ UNCHANGED << serverVars, scanVars, keyVars, callbackVars, handlerVars, nucleiVars >>
    \/ \E g \in Callers : SetBegin(g) /\ UNCHANGED << serverVars, scanVars, keyVars, callbackVars, handlerVars, nucleiVars >>
    \/ \E g \in Callers : SetReturn(g) /\ UNCHANGED << serverVars, scanVars, keyVars, callbackVars, handlerVars, nucleiVars >>
    \/ \E g \in Callers : GetAllBegin(g) /\ UNCHANGED << serverVars, scanVars, keyVars, callbackVars, handlerVars, nucleiVars >>
    \/ \E g \in Callers : GetAllReturn(g) /\ UNCHANGED << serverVars, scanVars, keyVars, callbackVars, handlerVars, nucleiVars >>
    \/ Tick /\ UNCHANGED << serverVars, scanVars, keyVars, callbackVars, handlerVars, nucleiVars >>

\* One ResultCache called from the goroutines Callers as time passes.
SpecCache ==
    CacheInit /\ [][CacheNext]_<< serverVars, cacheVars, scanVars, keyVars, callbackVars, handlerVars, nucleiVars >>


\* The most recent call to return was Get, at time now.
GetReturned == ret.op = "Get"

\* The key of the most recent Get has been Set.
GetKeyStored == GetReturned /\ ret.key \in DOMAIN entries

\* C14: Get reports found = false exactly when the key is absent or the
\* entry is older than the TTL, its age counted from its creation (the most
\* recent Set of the key); otherwise it reports found = true with the stored
\* value.
C14_FoundIffFresh ==
    GetReturned =>
        LET fresh == /\ ret.key \in DOMAIN entries
                     /\ now - entries[ret.key].createdAt <= expiry
        IN  /\ ret.found <=> fresh
            /\ ret.found => ret.result = entries[ret.key].value

\* C15: Set overwrites the entry of its key, and, whatever the ScanTime of
\* the result, a Get of the key at the time of the Set, the TTL being
\* positive, reports found with the stored value.
C15_SetStampsCreation ==
    /\ ret.op = "Set" =>
          ret.key \in DOMAIN cache /\ cache[ret.key] = ret.result
    /\ GetKeyStored /\ expiry > 0 /\ entries[ret.key].createdAt = now =>
          ret.found /\ ret.result = entries[ret.key].value

\* C16: a Get of a key later than ttl after the most recent Set of the key
\* reports not-found.
C16_ExpiredNotFound ==
    GetKeyStored /\ now > entries[ret.key].createdAt + expiry =>
        ~ret.found /\ ret.result = ZeroScanResult

\* A result made at the time of its Set, with a positive TTL, sought one tick
\* after the TTL has passed.
C16_Witness ==
    /\ GetKeyStored
    /\ expiry > 0
    /\ entries[ret.key].value.ScanTime = entries[ret.key].createdAt
    /\ now = entries[ret.key].createdAt + expiry + 1
    /\ ~ret.found

C19_SetExcludesAll ==
    /\ \A g \in Callers : cpc[g] = "Set" =>
          \A h \in Callers \ { g } : cpc[h] = "idle"
    /\ GetReturned /\ ret.found => ret.result = entries[ret.key].value
    /\ ret.op = "GetAll" =>
          \A i \in 1..Len(ret.results) : ret.results[i] # TornResult

\* A Get and a GetAll inside the cache at once.
C19_Witness ==
    /\ cpc["a"] = "Get"
    /\ cpc["b"] = "GetAll"
    /\ lock.readers = Callers
    /\ cache # EmptyMap


(***************************************************************************)
(* pkg/scanner: Scan, ThreadSafeScan and BasicScan over a ResultCache.     *)
(*                                                                         *)
(* A string is the sequence of its characters, so that a cache key is      *)
(* built as fmt.Sprintf and strings.Join build it.  The nuclei engine is   *)
(* outside the repository: each of its calls either fails or succeeds, and *)
(* while it executes it invokes the callback any number of times up to     *)
(* MaxEvents.  Each cache.Get and cache.Set is one step here; the cache's  *)
(* own locking is the subject of SpecCache.                                *)
(***************************************************************************)
MaxScans == 2    \* scan calls made
MaxEvents == 1   \* callback invocations of one engine execution

Targets == { << "a" >> }
Severities == { << "s" >> }
ProtocolsValues == { << "p" >> }
TemplateIDLists == { << >> }

Variants == { "Scan", "ThreadSafeScan", "BasicScan" }

RECURSIVE Join(_, _)
\* strings.Join
Join(elems, sep) ==
    IF Len(elems) = 0 THEN << >>
    ELSE IF Len(elems) = 1 THEN elems[1]
    ELSE elems[1] \o sep \o Join(Tail(elems), sep)

\* fmt.Sprintf("%s:%s:%s", target, severity, protocols)
CreateCacheKey(target, severity, protocols) ==
    target \o << ":" >> \o severity \o << ":" >> \o protocols

\* Faulty variant: the template ids are always appended.
FilteredKeyAlwaysExtended(target, severity, protocols, templateIDs) ==
    CreateCacheKey(target, severity, protocols)
        \o << ":" >> \o Join(templateIDs, << "," >>)

\* Faulty variant: the template ids are left out of the key.
FilteredKeyWithoutIDs(target, severity, protocols, templateIDs) ==
    CreateCacheKey(target, severity, protocols)

\* The cache key of Scan and of ThreadSafeScan.
FilteredKey(target, severity, protocols, templateIDs) ==
    IF Len(templateIDs) > 0
    THEN CreateCacheKey(target, severity, protocols)
            \o << ":" >> \o Join(templateIDs, << "," >>)
    ELSE CreateCacheKey(target, severity, protocols)

\* fmt.Sprintf("basic:%s", target)
BasicKey(target) == << "b", "a", "s", "i", "c", ":" >> \o target

\* The calls that can be made: BasicScan takes a target only.
ScanCalls ==
    { [variant |-> v, target |-> t, severity |-> sv, protocols |-> pr,
       templateIDs |-> ids] :
        v \in { "Scan", "ThreadSafeScan" }, t \in Targets, sv \in Severities,
        pr \in ProtocolsValues, ids \in TemplateIDLists }
    \cup
    { [variant |-> "BasicScan", target |-> t, severity |-> << >>,
       protocols |-> << >>, templateIDs |-> << >>] : t \in Targets }

\* Faulty variant: ThreadSafeScan keeps its results under keys of its own.
CacheKeyOfThreadSafeApart(call) ==
    IF call.variant = "BasicScan"
    THEN BasicKey(call.target)
    ELSE IF call.variant = "ThreadSafeScan"
         THEN << "t", "s", ":" >> \o FilteredKey(call.target, call.severity,
                                                call.protocols, call.templateIDs)
         ELSE FilteredKey(call.target, call.severity, call.protocols,
                          call.templateIDs)

\* The cache key each variant computes from its arguments.
CacheKeyOf(call) ==
    IF call.variant = "BasicScan"
    THEN BasicKey(call.target)
    ELSE FilteredKey(call.target, call.severity, call.protocols, call.templateIDs)

\* Faulty variant: a cached result without findings is not served.
ServedFromCacheIfFindings(r) == r.found /\ Len(r.result.Findings) > 0

\* if result, found := s.cache.Get(cacheKey); found
ServedFromCache(r) == r.found

\* Faulty variant: the result is stamped with the zero time.
BuildResultUnstamped(target, events, t) ==
    [Target |-> target, ScanTime |-> 0 - 1, Findings |-> events]

\* cache.ScanResult{Target: target, Findings: findings, ScanTime: time.Now()}
BuildResult(target, events, t) ==
    [Target |-> target, ScanTime |-> t, Findings |-> events]

\* Faulty variant: what was found before the failure is cached.
CacheAfterFailurePartial(c, local, t) ==
    Put(c, local.key, BuildResult(local.call.target, local.findings, t))

\* The cache after a return of ScanResult{} and the error: no cache.Set lies
\* on that path.
CacheAfterFailure(c, local, t) == c

\* What a call hands back, with what it did on the way; before is the cache
\* as the step that returns found it.
Returned(g, local, result, failed) ==
    [op |-> local.call.variant, caller |-> g, call |-> local.call,
     key |-> local.key, found |-> local.found, cached |-> local.cached,
     fresh |-> local.fresh, delivered |-> local.delivered,
     completedAt |-> local.completedAt, cancelled |-> local.cancelled,
     result |-> result, err |-> failed,
     engines |-> local.engines, executions |-> local.executions,
     sets |-> local.sets, before |-> cache]

\* Faulty variant: the engine is given context.Background().
EngineContextBackground(local) == "live"

\* The context the engine calls are given: ThreadSafeScan hands on its ctx,
\* Scan and BasicScan context.Background().  cancelled is "no", "yes" or,
\* when the cancellation came after the execution had returned, "late".
EngineContext(local) ==
    IF local.call.variant = "ThreadSafeScan" /\ local.cancelled = "yes"
    THEN "cancelled"
    ELSE "live"

\* A call begins: the key, cache.Get, and on a hit the return.  The
\* goroutines being alike, "b" is the one that calls while "a" is in a call.
BeginCall(g, call, cancelled) ==
    /\ spc[g] = "idle" /\ scans < MaxScans
    /\ g = "b" => spc["a"] # "idle"
    /\ scans' = scans + 1
    /\ LET key == CacheKeyOf(call)
           r == Get(cache, key, now, expiry)
           local == [call |-> call, key |-> key, found |-> r.found,
                     cached |-> r.result, findings |-> << >>,
                     result |-> ZeroScanResult, engines |-> 0,
                     executions |-> 0, sets |-> 0,
                     fresh |-> /\ key \in DOMAIN cache
                               /\ now - cache[key].ScanTime <= expiry,
                     delivered |-> << >>, completedAt |-> 0 - 1,
                     cancelled |-> cancelled]
       IN  /\ cache' = r.cache
           /\ IF ServedFromCache(r)
              THEN /\ sret' = Returned(g, local, r.result, FALSE)
                   /\ UNCHANGED << spc, slocal >>
              ELSE /\ sret' = NoRet
                   /\ slocal' = [slocal EXCEPT ![g] = local]
                   /\ spc' = [spc EXCEPT ![g] =
                                 IF call.variant = "BasicScan"
                                 THEN "files" ELSE "engine"]
    /\ UNCHANGED << expiry, lock, now, cpc, carg, ret, entries >>

\* Scan, ThreadSafeScan or BasicScan is called, no context being cancelled.
ScanBegin(g) == \E call \in ScanCalls : BeginCall(g, call, "no")

\* BasicScan: the templates directory and basic-test.yaml are there or made.
PrepareTemplates(g) ==
    /\ spc[g] = "files"
    /\ spc' = [spc EXCEPT ![g] = "engine"]
    /\ sret' = NoRet
    /\ UNCHANGED << slocal, scans, cacheVars >>

\* nuclei.NewNucleiEngineCtx or NewThreadSafeNucleiEngineCtx returns an engine
\* (a constructor given a cancelled context returns the context's error).
NewEngine(g) ==
    /\ spc[g] = "engine"
    /\ EngineContext(slocal[g]) = "live"
    /\ slocal' = [slocal EXCEPT ![g].engines = @ + 1]
    /\ spc' = [spc EXCEPT ![g] =
                  IF slocal[g].call.variant = "Scan" THEN "load" ELSE "execute"]
    /\ sret' = NoRet
    /\ UNCHANGED << scans, cacheVars >>

\* Scan: ne.LoadAllTemplates succeeds.
LoadAllTemplates(g) ==
    /\ spc[g] = "load"
    /\ spc' = [spc EXCEPT ![g] = "execute"]
    /\ sret' = NoRet
    /\ UNCHANGED << slocal, scans, cacheVars >>

\* The executing engine invokes the callback.
Callback(g) ==
    /\ spc[g] = "execute"
    /\ Len(slocal[g].findings) < MaxEvents
    /\ slocal' = [slocal EXCEPT ![g].findings = Append(@, "finding"),
                                 ![g].delivered = Append(@, "finding")]
    /\ sret' = NoRet
    /\ UNCHANGED << spc, scans, cacheVars >>

\* The execution returns nil (an execution whose context is cancelled returns
\* the context's error instead) and the result is built with time.Now().
ExecuteReturns(g) ==
    /\ spc[g] = "execute"
    /\ EngineContext(slocal[g]) = "live"
    /\ slocal' = [slocal EXCEPT
                     ![g].executions = @ + 1,
                     ![g].completedAt = now,
                     ![g].result = BuildResult(slocal[g].call.target,
                                               slocal[g].findings, now)]
    /\ spc' = [spc EXCEPT ![g] = "store"]
    /\ sret' = NoRet
    /\ UNCHANGED << scans, cacheVars >>

\* s.cache.Set(cacheKey, result) and the return of the result.
StoreAndReturn(g) ==
    /\ spc[g] = "store"
    /\ cache' = Put(cache, slocal[g].key, slocal[g].result)
    /\ entries' = Put(entries, slocal[g].key,
                      [value |-> slocal[g].result, createdAt |-> now,
                       by |-> slocal[g].call.variant])
    /\ sret' = Returned(g, [slocal[g] EXCEPT !.sets = @ + 1],
                        slocal[g].result, FALSE)
    /\ spc' = [spc EXCEPT ![g] = "idle"]
    /\ slocal' = [slocal EXCEPT ![g] = Nil]
    /\ UNCHANGED << scans, expiry, lock, now, cpc, carg, ret >>

\* A step that can fail fails: the call returns ScanResult{} and the error.
ScanFails(g) ==
    /\ spc[g] \in { "files", "engine", "load", "execute" }
    /\ sret' = Returned(g,
                        IF spc[g] = "execute"
                        THEN [slocal[g] EXCEPT !.executions = @ + 1]
                        ELSE slocal[g],
                        ZeroScanResult, TRUE)
    /\ cache' = CacheAfterFailure(cache, slocal[g], now)
    /\ spc' = [spc EXCEPT ![g] = "idle"]
    /\ slocal' = [slocal EXCEPT ![g] = Nil]
    /\ UNCHANGED << scans, expiry, lock, now, cpc, carg, ret, entries >>

\* The clock advances while scans run, as far as the longest expiry and one
\* tick more.
ScanTick ==
    /\ now < MaxExpiry + 1
    /\ now' = now + 1
    /\ sret' = NoRet
    /\ UNCHANGED << spc, slocal, scans,
                    cache, expiry, lock, cpc, carg, ret, entries >>

\* NewScannerService over a new ResultCache with a positive expiry.
ScanInit ==
    /\ ServerIdle
    /\ ScanIdle
    /\ KeysIdle
    /\ CallbackIdle
    /\ HandlerIdle
    /\ NucleiIdle
    /\ cache = EmptyMap
    /\ expiry \in 1..MaxExpiry
    /\ lock = Unlocked
    /\ now = 0
    /\ cpc = [g \in Callers |-> "idle"]
    /\ carg = [g \in Callers |-> Nil]
    /\ ret = NoRet
    /\ entries = EmptyMap

ScanNext ==
    \/ \E g \in Callers : ScanBegin(g) /\ UNCHANGED << serverVars, keyVars, callbackVars, handlerVars, nucleiVars >>
    \/ \E g \in Callers : PrepareTemplates(g) /\ UNCHANGED << serverVars, keyVars, callbackVars, handlerVars, nucleiVars >>
    \/ \E g \in Callers : NewEngine(g) /\ UNCHANGED << serverVars, keyVars, callbackVars, handlerVars, nucleiVars >>
    \/ \E g \in Callers : LoadAllTemplates(g) /\ UNCHANGED << serverVars, keyVars, callbackVars, handlerVars, nucleiVars >>
    \/ \E g \in Callers : Callback(g) /\ UNCHANGED << serverVars, keyVars, callbackVars, handlerVars, nucleiVars >>
    \/ \E g \in Callers : ExecuteReturns(g) /\ UNCHANGED << serverVars, keyVars, callbackVars, handlerVars, nucleiVars >>
    \/ \E g \in Callers : StoreAndReturn(g) /\ UNCHANGED << serverVars, keyVars, callbackVars, handlerVars, nucleiVars >>
    \/ \E g \in Callers : ScanFails(g) /\ UNCHANGED << serverVars, keyVars, callbackVars, handlerVars, nucleiVars >>
    \/ ScanTick /\ UNCHANGED << serverVars, keyVars, callbackVars, handlerVars, nucleiVars >>

\* The scanner service called from the goroutines Callers as time passes.
SpecScan ==
    ScanInit /\ [][ScanNext]_<< serverVars, cacheVars, scanVars, keyVars, callbackVars, handlerVars, nucleiVars >>

(***************************************************************************)
(* ThreadSafeScan and its context: the caller may have cancelled ctx       *)
(* before the call, or cancels it while the call runs.                     *)
(***************************************************************************)
ThreadSafeScanCalls == { call \in ScanCalls : call.variant = "ThreadSafeScan" }

\* ThreadSafeScan is called with a context that is live or already cancelled.
ThreadSafeScanBegin(g) ==
    \E call \in ThreadSafeScanCalls, cancelled \in { "no", "yes" } :
        BeginCall(g, call, cancelled)

\* The caller cancels the context of a running ThreadSafeScan.
CancelContext(g) ==
    /\ spc[g] \in { "engine", "execute", "store" }
    /\ slocal[g].call.variant = "ThreadSafeScan"
    /\ slocal[g].cancelled = "no"
    /\ slocal' = [slocal EXCEPT ![g].cancelled =
                     IF spc[g] = "store" THEN "late" ELSE "yes"]
    /\ sret' = NoRet
    /\ UNCHANGED << spc, scans, cacheVars >>

CancelNext ==
    \/ \E g \in Callers : ThreadSafeScanBegin(g) /\ UNCHANGED << serverVars, keyVars, callbackVars, handlerVars, nucleiVars >>
    \/ \E g \in Callers : CancelContext(g) /\ UNCHANGED << serverVars, keyVars, callbackVars, handlerVars, nucleiVars >>
    \/ \E g \in Callers : NewEngine(g) /\ UNCHANGED << serverVars, keyVars, callbackVars, handlerVars, nucleiVars >>
    \/ \E g \in Callers : Callback(g) /\ UNCHANGED << serverVars, keyVars, callbackVars, handlerVars, nucleiVars >>
    \/ \E g \in Callers : ExecuteReturns(g) /\ UNCHANGED << serverVars, keyVars, callbackVars, handlerVars, nucleiVars >>
    \/ \E g \in Callers : StoreAndReturn(g) /\ UNCHANGED << serverVars, keyVars, callbackVars, handlerVars, nucleiVars >>
    \/ \E g \in Callers : ScanFails(g) /\ UNCHANGED << serverVars, keyVars, callbackVars, handlerVars, nucleiVars >>
    \/ ScanTick /\ UNCHANGED << serverVars, keyVars, callbackVars, handlerVars, nucleiVars >>

\* ThreadSafeScan called with contexts that can be cancelled.
SpecCancel ==
    ScanInit /\ [][CancelNext]_<< serverVars, cacheVars, scanVars, keyVars, callbackVars, handlerVars, nucleiVars >>

\* A scan call has just returned.
ScanReturned == sret.op \in Variants

\* C20: when cache.Get finds the key of the request, Scan, ThreadSafeScan
\* and BasicScan return the cached ScanResult and no error, having made no
\* engine, run no execution and called no cache.Set, the cache being as it
\* was.
C20_HitShortCircuits ==
    ScanReturned /\ sret.found =>
        /\ sret.result = sret.cached
        /\ sret.key \in DOMAIN sret.before
        /\ sret.result = sret.before[sret.key]
        /\ ~sret.err
        /\ sret.engines = 0
        /\ sret.executions = 0
        /\ sret.sets = 0
        /\ cache = sret.before

\* A BasicScan served the result, without findings, that an earlier
\* BasicScan of the target stored.
C20_Witness ==
    /\ ScanReturned /\ sret.found
    /\ sret.op = "BasicScan"
    /\ sret.result.Target = sret.call.target
    /\ sret.result.Findings = << >>
    /\ scans = 2


\* The most recent iteration of the Start loop failed to decode its line.
DecodeFailed == op \in { "decodeTypeError", "decodeSyntaxError", "decodeStuck" }

\* C30: after the Start loop has failed to decode a line, a well-formed
\* request that follows on the stream is still decoded, handled and answered.
C30_MalformedLineSkipped ==
    DecodeFailed /\ pc = "decode" /\ linesLeft > 0 => ENABLED StartRequest


\* The call that has just returned missed the cache and ended without error.
ScannedAndStored == ScanReturned /\ ~sret.found /\ ~sret.err

\* C21: a Scan, ThreadSafeScan or BasicScan in which a step fails returns
\* the error and ScanResult{}, has called no cache.Set and leaves the cache
\* as it was, and has made at most one engine and run it at most once.
C21_FailureCachesNothing ==
    ScanReturned /\ sret.err =>
        /\ sret.result = ZeroScanResult
        /\ sret.sets = 0
        /\ cache = sret.before
        /\ sret.engines <= 1
        /\ sret.executions <= 1

\* The execution failed after the callback had been given a finding, for a
\* key the cache does not hold.
C21_Witness ==
    /\ ScanReturned /\ sret.err
    /\ sret.executions = 1
    /\ sret.delivered # << >>
    /\ sret.key \notin DOMAIN cache

\* C22: a Scan that misses the cache and whose execution succeeds returns a
\* ScanResult with the requested target, exactly the events delivered to
\* the callback and the time the execution completed, having made one
\* engine and one cache.Set that put this value under the computed key; and
\* a Scan that finds under its key a result no older than the TTL returns
\* it without making an engine.
C22_MissStoresResult ==
    /\ ScannedAndStored /\ sret.op = "Scan" =>
          /\ sret.result.Target = sret.call.target
          /\ sret.result.Findings = sret.delivered
          /\ sret.result.ScanTime = sret.completedAt
          /\ sret.engines = 1 /\ sret.executions = 1 /\ sret.sets = 1
          /\ sret.key = FilteredKey(sret.call.target, sret.call.severity,
                                    sret.call.protocols, sret.call.templateIDs)
          /\ cache = Put(sret.before, sret.key, sret.result)
    /\ ScanReturned /\ sret.op = "Scan" /\ sret.fresh =>
          /\ sret.found /\ ~sret.err
          /\ sret.result = sret.before[sret.key]
          /\ sret.engines = 0

\* A Scan stored a result with a finding some time after the cache was made.
C22_Witness ==
    /\ ScannedAndStored /\ sret.op = "Scan"
    /\ sret.result.Findings # << >>
    /\ sret.result.ScanTime > 0

\* C23: two calls that both miss the same key both make an engine and both
\* call cache.Set: a call on the miss path is never held back by another,
\* each call that stores returns the result of its own execution, and the
\* cache holds under each key the value of the most recent Set.
C23_NotSingleFlight ==
    /\ \A g \in Callers :
          /\ spc[g] = "engine" => ENABLED NewEngine(g)
          /\ spc[g] = "execute" => ENABLED ExecuteReturns(g)
          /\ spc[g] = "store" => ENABLED StoreAndReturn(g)
    /\ ScannedAndStored =>
          /\ sret.engines = 1 /\ sret.sets = 1
          /\ sret.result.Findings = sret.delivered
          /\ cache[sret.key] = sret.result
    /\ DOMAIN cache = DOMAIN entries
    /\ \A k \in DOMAIN cache : cache[k] = entries[k].value

\* Of two concurrent Scan calls that missed the same key, one has stored and
\* returned its result and the other is about to store a different one.
C23_Witness ==
    /\ ScannedAndStored /\ sret.op = "Scan"
    /\ sret.caller = "a"
    /\ spc["b"] = "store"
    /\ slocal["b"].call.variant = "Scan"
    /\ slocal["b"].key = sret.key
    /\ slocal["b"].result # sret.result
    /\ cache[sret.key] = sret.result


\* The call that has just returned was a Scan or a ThreadSafeScan.
FilteredReturned == ScanReturned /\ sret.op \in { "Scan", "ThreadSafeScan" }

\* The key Scan computes for the arguments of the call that has returned.
ScanKeyOfReturned ==
    FilteredKey(sret.call.target, sret.call.severity, sret.call.protocols,
                sret.call.templateIDs)

ThreadSafeScanReturned == ScanReturned /\ sret.op = "ThreadSafeScan"

IndexOf(str, sep) ==
    IF \E i \in 1..Len(str) : str[i] = sep
    THEN CHOOSE i \in 1..Len(str) :
            /\ str[i] = sep
            /\ \A j \in 1..(i - 1) : str[j] # sep
    ELSE 0

RECURSIVE Split(_, _)
\* strings.Split(str, sep) for a one-character sep.
Split(str, sep) ==
    IF IndexOf(str, sep) = 0
    THEN << str >>
    ELSE << SubSeq(str, 1, IndexOf(str, sep) - 1) >>
            \o Split(SubSeq(str, IndexOf(str, sep) + 1, Len(str)), sep)

\* severity == "" becomes "info"
DefaultSeverity == << "i", "n", "f", "o" >>

\* protocols == "" becomes "http,https"
DefaultProtocols == << "h", "t", "t", "p", ",", "h", "t", "t", "p", "s" >>

\* The template ids HandleNucleiScanTool passes on: template_ids split at
\* the commas, then template_id appended.
TemplateIDsOf(ids, id) ==
    (IF ids # << >> THEN Split(ids, ",") ELSE << >>)
        \o (IF id # << >> THEN << id >> ELSE << >>)

\* Faulty variant: empty severity and protocols are passed on as they are.
ScanToolCallNoDefaults(target, severity, protocols, threadSafe, ids, id) ==
    [fn |-> IF threadSafe THEN "ThreadSafeScan" ELSE "Scan",
     target |-> target,
     severity |-> severity,
     protocols |-> protocols,
     templateIDs |-> TemplateIDsOf(ids, id)]

\* The scan HandleNucleiScanTool calls for the arguments of a tool call.
ScanToolCall(target, severity, protocols, threadSafe, ids, id) ==
    [fn |-> IF threadSafe THEN "ThreadSafeScan" ELSE "Scan",
     target |-> target,
     severity |-> IF severity = << >> THEN DefaultSeverity ELSE severity,
     protocols |-> IF protocols = << >> THEN DefaultProtocols ELSE protocols,
     templateIDs |-> TemplateIDsOf(ids, id)]

\* The arguments of the tool calls; an absent argument is the empty string.
KeyTargets ==
    { << "a" >>, << "b", "a", "s", "i", "c" >>, << "s", ":", "p" >> }

SeverityArguments == { << "s" >> }

ProtocolsArguments == { << >>, << "p" >> }

TemplateIDsArguments ==
    { << >>, << "x" >>, << "x", ",", "y" >>, << "y", ",", "x" >> }

TemplateIDArguments == { << >>, << "x" >> }

\* nuclei_scan: the handler's call of Scan or ThreadSafeScan computes the key.
ScanToolKey ==
    \E target \in KeyTargets, severity \in SeverityArguments,
       protocols \in ProtocolsArguments, threadSafe \in BOOLEAN,
       ids \in TemplateIDsArguments, id \in TemplateIDArguments :
        LET call == ScanToolCall(target, severity, protocols, threadSafe,
                                 ids, id)
        IN  /\ keyed' = [fn |-> call.fn, target |-> call.target,
                         severity |-> call.severity,
                         protocols |-> call.protocols,
                         templateIDs |-> call.templateIDs,
                         key |-> FilteredKey(call.target, call.severity,
                                             call.protocols,
                                             call.templateIDs)]
            /\ prev' = keyed

\* basic_scan: the handler's call of BasicScan computes the key.
BasicScanToolKey ==
    \E target \in KeyTargets :
        /\ keyed' = [fn |-> "BasicScan", target |-> target,
                     severity |-> << >>, protocols |-> << >>,
                     templateIDs |-> << >>, key |-> BasicKey(target)]
        /\ prev' = keyed

\* A call of CreateCacheKey itself.
CreateCacheKeyCall ==
    \E target \in KeyTargets, severity \in SeverityArguments,
       protocols \in ProtocolsArguments \ { << >> } :
        /\ keyed' = [fn |-> "CreateCacheKey", target |-> target,
                     severity |-> severity, protocols |-> protocols,
                     templateIDs |-> << >>,
                     key |-> CreateCacheKey(target, severity, protocols)]
        /\ prev' = keyed

KeysInit ==
    /\ ServerIdle
    /\ CacheIdle
    /\ ScanIdle
    /\ KeysIdle
    /\ CallbackIdle
    /\ HandlerIdle
    /\ NucleiIdle

KeysNext ==
    \/ ScanToolKey /\ UNCHANGED << serverVars, cacheVars, scanVars, callbackVars, handlerVars, nucleiVars >>
    \/ BasicScanToolKey /\ UNCHANGED << serverVars, cacheVars, scanVars, callbackVars, handlerVars, nucleiVars >>
    \/ CreateCacheKeyCall /\ UNCHANGED << serverVars, cacheVars, scanVars, callbackVars, handlerVars, nucleiVars >>

\* The cache keys of any two calls.
SpecKeys ==
    KeysInit /\ [][KeysNext]_<< serverVars, cacheVars, scanVars, keyVars, callbackVars, handlerVars, nucleiVars >>

\* keyed is the key of a call of Scan or ThreadSafeScan.
Filtered(k) == k.fn \in { "Scan", "ThreadSafeScan" }

\* C24: CreateCacheKey is a function of its arguments alone and returns
\* target, severity and protocols joined by ':'; the key of Scan and of
\* ThreadSafeScan is that key, followed by ':' and the template ids joined
\* by ',' exactly when the list of template ids is not empty.
C24_KeyFormat ==
    /\ keyed.fn = "CreateCacheKey" =>
        /\ keyed.key = Join(<< keyed.target, keyed.severity,
                               keyed.protocols >>, << ":" >>)
        /\ \A other \in { prev } :
            ( /\ other.fn = "CreateCacheKey"
              /\ other.target = keyed.target
              /\ other.severity = keyed.severity
              /\ other.protocols = keyed.protocols ) => other.key = keyed.key
    /\ Filtered(keyed) =>
        LET base == Join(<< keyed.target, keyed.severity,
                            keyed.protocols >>, << ":" >>)
        IN  /\ keyed.templateIDs = << >> => keyed.key = base
            /\ keyed.templateIDs # << >> =>
                keyed.key = Join(<< base, Join(keyed.templateIDs,
                                               << "," >>) >>, << ":" >>)

\* Both forms of the filtered key have been computed, after a call of
\* CreateCacheKey.
C24_Witness ==
    /\ Filtered(keyed)
    /\ Len(keyed.templateIDs) = 2
    /\ prev.fn = "CreateCacheKey"

\* b holds the elements of a, each as often as a does.
IsPermutation(a, b) ==
    /\ Len(a) = Len(b)
    /\ \A x \in { a[i] : i \in 1..Len(a) } \cup { b[i] : i \in 1..Len(b) } :
        Cardinality({ i \in 1..Len(a) : a[i] = x })
            = Cardinality({ i \in 1..Len(b) : b[i] = x })

\* Two calls of Scan that differ in the order of the template ids only.
SameIDsOtherOrder ==
    /\ prev.fn = "Scan"
    /\ keyed.fn = "Scan"
    /\ prev.target = keyed.target
    /\ prev.severity = keyed.severity
    /\ prev.protocols = keyed.protocols
    /\ IsPermutation(prev.templateIDs, keyed.templateIDs)
    /\ prev.templateIDs # keyed.templateIDs

\* C25: two calls of Scan with the same template ids in a different order
\* have different cache keys, so after the first has stored its result the
\* second finds nothing in the cache and goes on to the engine.
C25_OrderSensitiveKeys ==
    SameIDsOtherOrder =>
        /\ keyed.key # prev.key
        /\ \A t \in 0..MaxTime, exp \in 1..MaxExpiry :
            ~ServedFromCache(
                Get(Put(EmptyMap, prev.key,
                        BuildResult(prev.target, << >>, t)),
                    keyed.key, t, exp))

\* Scan has been called with x,y and then with y,x.
C25_Witness ==
    /\ SameIDsOtherOrder
    /\ prev.templateIDs = << << "x" >>, << "y" >> >>
    /\ keyed.templateIDs = << << "y" >>, << "x" >> >>

\* C26: the key of a BasicScan call differs from the key of every call of
\* Scan or ThreadSafeScan.
C26_BasicKeysApart ==
    ( /\ keyed.fn = "BasicScan"
      /\ Filtered(prev) ) => keyed.key # prev.key

(***************************************************************************)
(* The result callback.  The engine invokes it from its worker threads,    *)
(* any number of them at a time; each invocation locks findingsMutex,      *)
(* appends its event to findings and unlocks on return.  The append reads  *)
(* the slice and writes the longer one back, two steps of the thread.      *)
(***************************************************************************)

\* Faulty variant: Lock never waits.
LockAcquirableAlways(mutex) == TRUE

\* findingsMutex.Lock() returns only while no thread holds the mutex.
LockAcquirable(mutex) == mutex = {}

\* The events the callback has been invoked with on thread t.
InvokedBy(t) == { e \in invoked : e.by = t }

\* The engine invokes the callback on thread t with a new event.
InvokeCallback(t) ==
    /\ tpc[t] = "idle"
    /\ ~returnedFindings.returned
    /\ Cardinality(InvokedBy(t)) < MaxEvents
    /\ LET event == [by |-> t, n |-> Cardinality(InvokedBy(t)) + 1]
       IN  /\ invoked' = invoked \cup { event }
           /\ tlocal' = [tlocal EXCEPT ![t] = [event |-> event,
                                                read |-> << >>]]
    /\ tpc' = [tpc EXCEPT ![t] = "lock"]
    /\ UNCHANGED << findings, findingsMutex, returnedFindings >>

\* findingsMutex.Lock()
LockMutex(t) ==
    /\ tpc[t] = "lock"
    /\ LockAcquirable(findingsMutex)
    /\ findingsMutex' = findingsMutex \cup { t }
    /\ tpc' = [tpc EXCEPT ![t] = "read"]
    /\ UNCHANGED << findings, tlocal, invoked, returnedFindings >>

\* append(findings, event): the slice is read
AppendRead(t) ==
    /\ tpc[t] = "read"
    /\ tlocal' = [tlocal EXCEPT ![t].read = findings]
    /\ tpc' = [tpc EXCEPT ![t] = "write"]
    /\ UNCHANGED << findings, findingsMutex, invoked, returnedFindings >>

\* findings = append(findings, event): the longer slice is written
AppendWrite(t) ==
    /\ tpc[t] = "write"
    /\ findings' = Append(tlocal[t].read, tlocal[t].event)
    /\ tpc' = [tpc EXCEPT ![t] = "unlock"]
    /\ UNCHANGED << findingsMutex, tlocal, invoked, returnedFindings >>

\* defer findingsMutex.Unlock(): the callback returns
UnlockMutex(t) ==
    /\ tpc[t] = "unlock"
    /\ findingsMutex' = findingsMutex \ { t }
    /\ tlocal' = [tlocal EXCEPT ![t] = Nil]
    /\ tpc' = [tpc EXCEPT ![t] = "idle"]
    /\ UNCHANGED << findings, invoked, returnedFindings >>

\* The execution returns once every callback has: the result takes findings.
ExecuteWithCallbackReturns ==
    /\ ~returnedFindings.returned
    /\ \A t \in Threads : tpc[t] = "idle"
    /\ returnedFindings' = [returned |-> TRUE, Findings |-> findings]
    /\ UNCHANGED << findings, findingsMutex, tpc, tlocal, invoked >>

CallbackInit ==
    /\ ServerIdle
    /\ CacheIdle
    /\ ScanIdle
    /\ KeysIdle
    /\ CallbackIdle
    /\ HandlerIdle
    /\ NucleiIdle

CallbackNext ==
    \/ \E t \in Threads : InvokeCallback(t) /\ UNCHANGED << serverVars, cacheVars, scanVars, keyVars, handlerVars, nucleiVars >>
    \/ \E t \in Threads : LockMutex(t) /\ UNCHANGED << serverVars, cacheVars, scanVars, keyVars, handlerVars, nucleiVars >>
    \/ \E t \in Threads : AppendRead(t) /\ UNCHANGED << serverVars, cacheVars, scanVars, keyVars, handlerVars, nucleiVars >>
    \/ \E t \in Threads : AppendWrite(t) /\ UNCHANGED << serverVars, cacheVars, scanVars, keyVars, handlerVars, nucleiVars >>
    \/ \E t \in Threads : UnlockMutex(t) /\ UNCHANGED << serverVars, cacheVars, scanVars, keyVars, handlerVars, nucleiVars >>
    \/ ExecuteWithCallbackReturns /\ UNCHANGED << serverVars, cacheVars, scanVars, keyVars, handlerVars, nucleiVars >>

\* One execution with its callbacks on the engine's threads.
SpecCallback ==
    CallbackInit /\ [][CallbackNext]_<< serverVars, cacheVars, scanVars, keyVars, callbackVars, handlerVars, nucleiVars >>

\* How often event e occurs in the sequence fs.
Occurrences(fs, e) == Cardinality({ i \in 1..Len(fs) : fs[i] = e })

\* C29: whatever the interleaving of the callbacks, the findings of the
\* result hold every event the callback was invoked with exactly once and
\* nothing else; and no two threads are inside the append at a time.
C29_EveryEventOnce ==
    /\ Cardinality(findingsMutex) <= 1
    /\ returnedFindings.returned =>
        /\ \A e \in invoked : Occurrences(returnedFindings.Findings, e) = 1
        /\ Len(returnedFindings.Findings) = Cardinality(invoked)

\* One callback has appended its event and returned, a second is inside the
\* append, and a third waits for the mutex.
C29_Witness ==
    \E t1, t2, t3 \in Threads :
        /\ tpc[t1] = "idle"
        /\ findings = << [by |-> t1, n |-> 1] >>
        /\ tpc[t2] = "write"
        /\ findingsMutex = { t2 }
        /\ tpc[t3] = "lock"

(***************************************************************************)
(* Termination of Start.  The loop is the only thread of the server and    *)
(* runs whenever it can: an iteration that can be taken is taken.          *)
(***************************************************************************)

allVars == << vars, regVars, cacheVars, scanVars, keyVars, callbackVars, handlerVars, nucleiVars >>

\* One iteration of the for loop of Start.
StartIteration ==
    /\ \/ StartRequest
       \/ StartTypeError
       \/ StartSyntaxError
       \/ StartStuck
       \/ StartEOF
    /\ UNCHANGED << regVars, cacheVars, scanVars, keyVars, callbackVars, handlerVars, nucleiVars >>

\* The Start loop scheduled fairly.
SpecLive == Init /\ [][Next]_allVars /\ WF_allVars(StartIteration)

\* C31: on every finite input stream, malformed lines included, Start
\* eventually returns.
C31_StartReturns == <>(pc = "done")

\* handleRequest answered with an error response.
AnsweredWithError ==
    /\ Handled
    /\ Len(written) = 1
    /\ IsResponse(written[1])
    /\ HasError(written[1])

\* C32: a request answered with an error response (InvalidRequest,
\* InvalidParams, MethodNotFound or InternalError) leaves initialized, tools,
\* resources and templates as they were; an initialize whose params do not
\* decode is answered InvalidParams and an uninitialized server stays
\* uninitialized; the list methods, ping and tools/call change no collection.
C32_ErrorsChangeNothing ==
    /\ AnsweredWithError =>
        /\ written[1].error.code
               \in { InvalidRequest, InvalidParams, MethodNotFound, InternalError }
        /\ FieldsUnchanged
    /\ ( /\ Handled
         /\ req.Method = "initialize"
         /\ ~UnmarshalOK(req.Params, InitializeRequest) ) =>
        /\ FailedWith(InvalidParams)
        /\ initialized = pre.initialized
    /\ (Handled /\ req.Method \in GuardedMethods \cup { "ping" }) =>
        /\ tools = pre.tools
        /\ resources = pre.resources
        /\ templates = pre.templates

\* An uninitialized server, holding a tool, has answered an initialize whose
\* params do not decode with InvalidParams and is still uninitialized.
C32_Witness ==
    /\ AnsweredWithError
    /\ req.Method = "initialize"
    /\ ~pre.initialized
    /\ FailedWith(InvalidParams)
    /\ ~initialized
    /\ Len(tools) > 0

(***************************************************************************)
(* Scans one after another, each call taken as a whole, over targets and   *)
(* filters that differ from call to call.                                  *)
(***************************************************************************)

\* Targets of successive calls.
SequenceTargets == { << "b", "a", "s", "i", "c" >>, << "s", ":", "p" >> }

SequenceCalls ==
    { [variant |-> v, target |-> t, severity |-> << "s" >>,
       protocols |-> << "p" >>, templateIDs |-> << >>] :
        v \in { "Scan", "ThreadSafeScan" }, t \in SequenceTargets }
    \cup
    { [variant |-> "BasicScan", target |-> t, severity |-> << >>,
       protocols |-> << >>, templateIDs |-> << >>] : t \in SequenceTargets }

\* NoopCache.Get
NoopGet(c, key) == [result |-> ZeroScanResult, found |-> FALSE, cache |-> c]

\* NoopCache.Set
NoopSet(c, key, v) == c

\* NoopCache.GetAll: nil, the slice without elements
NoopGetAll == << >>

\* The methods of ResultCacheInterface on the cache the service was given.
CacheGet(kind, c, key, t, exp) ==
    IF kind = "NoopCache" THEN NoopGet(c, key) ELSE Get(c, key, t, exp)

CacheSet(kind, c, key, v) ==
    IF kind = "NoopCache" THEN NoopSet(c, key, v) ELSE Put(c, key, v)

CacheGetAll(kind, c, order, t, exp) ==
    IF kind = "NoopCache" THEN NoopGetAll ELSE GetAll(c, order, t, exp)

\* What a whole call returns and leaves in the cache when the engine, if it
\* comes to it, succeeds and delivers no event; engines counts the engines
\* the call made.
ScanOutcomeOn(kind, call, c, t, exp) ==
    LET key == CacheKeyOf(call)
        got == CacheGet(kind, c, key, t, exp)
    IN  IF ServedFromCache(got)
        THEN [result |-> got.result, found |-> TRUE, key |-> key,
              engines |-> 0, cache |-> c]
        ELSE [result |-> BuildResult(call.target, << >>, t), found |-> FALSE,
              key |-> key, engines |-> 1,
              cache |-> CacheSet(kind, c, key,
                                 BuildResult(call.target, << >>, t))]

\* The same over a ResultCache.
ScanOutcome(call, c, t, exp) == ScanOutcomeOn("ResultCache", call, c, t, exp)

\* A call of Scan, ThreadSafeScan or BasicScan from its cache check to its
\* return without error.
ScanWhole ==
    \E call \in SequenceCalls :
        LET out == ScanOutcome(call, cache, now, expiry)
        IN  /\ cache' = out.cache
            /\ sret' = [op |-> call.variant, call |-> call, key |-> out.key,
                        found |-> out.found, result |-> out.result,
                        err |-> FALSE, before |-> cache]
    /\ UNCHANGED << spc, slocal, scans, expiry, lock, now, cpc, carg, ret,
                    entries >>

\* A call that misses the cache and whose engine fails.
ScanWholeFails ==
    \E call \in SequenceCalls :
        /\ ~ServedFromCache(Get(cache, CacheKeyOf(call), now, expiry))
        /\ sret' = [op |-> call.variant, call |-> call,
                    key |-> CacheKeyOf(call), found |-> FALSE,
                    result |-> ZeroScanResult, err |-> TRUE, before |-> cache]
    /\ UNCHANGED << spc, slocal, scans, cache, expiry, lock, now, cpc, carg,
                    ret, entries >>

SequenceNext ==
    \/ ScanWhole /\ UNCHANGED << serverVars, keyVars, callbackVars, handlerVars, nucleiVars >>
    \/ ScanWholeFails /\ UNCHANGED << serverVars, keyVars, callbackVars, handlerVars, nucleiVars >>
    \/ ScanTick /\ UNCHANGED << serverVars, keyVars, callbackVars, handlerVars, nucleiVars >>

\* Any sequence of scans on one scannerServiceImpl.
SpecSequence == ScanInit /\ [][SequenceNext]_allVars

\* C33: every result returned without error by Scan, ThreadSafeScan or
\* BasicScan has the target of that call as its Target, whatever scans came
\* before.
C33_ResultOfRequestedTarget ==
    (ScanReturned /\ ~sret.err) => sret.result.Target = sret.call.target

(***************************************************************************)
(* HandleNucleiScanTool over a ScannerService whose scans succeed or fail. *)
(* An argument map is a record of decoded JSON values, Nil for a key that  *)
(* is absent; Nil for the map itself is an Arguments value that is no map. *)
(***************************************************************************)

JBool(b) == [t |-> "bool", b |-> b]

\* v, _ := argMap[name].(string): the empty string unless a string is there.
StringArgument(args, name) ==
    IF args[name].t = "string" THEN args[name].s ELSE << >>

\* v, _ := argMap[name].(bool): false unless a bool is there.
BoolArgument(args, name) ==
    IF args[name].t = "bool" THEN args[name].b ELSE FALSE

ScanToolArguments ==
    [target : { Nil, JStr(<< >>), JNum(7), JStr(<< "a" >>) },
     severity : { Nil, JStr(<< >>), JStr(<< "s" >>) },
     protocols : { Nil, JStr(<< >>), JStr(<< "p" >>) },
     thread_safe : { Nil, JBool(TRUE), JBool(FALSE), JStr(<< "t" >>) },
     template_ids : { Nil, JStr(<< "x", ",", "y" >>) },
     template_id : { Nil }]

\* What the scan the handler calls can come to: an error, or a result with
\* these findings.
ServiceOutcomes ==
    { [failed |-> TRUE, findings |-> << >>],
      [failed |-> FALSE, findings |-> << >>],
      [failed |-> FALSE, findings |-> << "finding" >>] }

\* mcp.NewToolResultText(responseText)
ToolResultText(target, result) ==
    IF Len(result.Findings) = 0
    THEN [text |-> << "No vulnerabilities found for target: %s", target >>]
    ELSE [text |-> << "Found %d vulnerabilities for target: %s",
                      Len(result.Findings), target >>]

\* The handler: the scans it calls, with what each came to, and its return.
HandleNucleiScanTool(args, outcome) ==
    IF args = Nil
    THEN [scans |-> << >>, result |-> Nil,
          err |-> [msg |-> "invalid arguments format"]]
    ELSE IF StringArgument(args, "target") = << >>
    THEN [scans |-> << >>, result |-> Nil,
          err |-> [msg |-> "invalid or missing target parameter"]]
    ELSE LET call == ScanToolCall(StringArgument(args, "target"),
                                  StringArgument(args, "severity"),
                                  StringArgument(args, "protocols"),
                                  BoolArgument(args, "thread_safe"),
                                  StringArgument(args, "template_ids"),
                                  StringArgument(args, "template_id"))
         IN  IF outcome.failed
             THEN [scans |-> << [call |-> call, failed |-> TRUE] >>,
                   result |-> Nil,
                   err |-> [msg |-> "scan failed: %w", wraps |-> call.fn]]
             ELSE [scans |-> << [call |-> call, failed |-> FALSE] >>,
                   result |-> ToolResultText(call.target,
                                 BuildResult(call.target, outcome.findings, 0)),
                   err |-> Nil]

\* A nuclei_scan tool call.
NucleiScanToolCall ==
    \E args \in ScanToolArguments \cup { Nil }, outcome \in ServiceOutcomes :
        LET h == HandleNucleiScanTool(args, outcome)
        IN  /\ hargs' = args
            /\ hscans' = h.scans
            /\ hret' = [op |-> "HandleNucleiScanTool", result |-> h.result,
                        err |-> h.err]

HandlerInit ==
    /\ ServerIdle
    /\ CacheIdle
    /\ ScanIdle
    /\ KeysIdle
    /\ CallbackIdle
    /\ HandlerIdle
    /\ NucleiIdle

ScanToolNext ==
    \/ NucleiScanToolCall
        /\ UNCHANGED << serverVars, cacheVars, scanVars, keyVars, callbackVars, nucleiVars >>

\* Calls of the nuclei_scan tool.
SpecScanTool == HandlerInit /\ [][ScanToolNext]_allVars

\* The target argument of the most recent call is a non-empty string.
TargetGiven ==
    /\ hargs # Nil
    /\ hargs.target.t = "string"
    /\ hargs.target.s # << >>

\* The argument is absent or the empty string.
AbsentOrEmpty(v) == v = Nil \/ v = JStr(<< >>)

SampleLimit == 5

\* The findings of the cached results: none, one, and more than fit a sample.
ResourceFindings ==
    { << >>, << "f1" >>, << "f1", "f2", "f3", "f4", "f5", "f6" >> }

ResourceResults(t) ==
    { [Target |-> << "a" >>, ScanTime |-> st, Findings |-> f] :
        st \in 0..t, f \in ResourceFindings }

\* Faulty variant: every finding is sampled.
SampleCountAll(n) == n

\* min(5, len(result.Findings))
SampleCount(n) == IF SampleLimit < n THEN SampleLimit ELSE n

\* The map built for one result.
ScanInfo(result) ==
    LET base == [target |-> result.Target,
                 scan_time |-> result.ScanTime,
                 findings |-> Len(result.Findings)]
    IN  IF Len(result.Findings) > 0
        THEN [target |-> base.target, scan_time |-> base.scan_time,
              findings |-> base.findings,
              sample_findings |->
                  [i \in 1..SampleCount(Len(result.Findings)) |->
                      [name |-> result.Findings[i]]]]
        ELSE base

\* The report and the one resource content that carries it.
HandleVulnerabilityResource(results) ==
    LET recentScans == [i \in 1..Len(results) |-> ScanInfo(results[i])]
    IN  << [URI |-> "vulnerabilities", MIMEType |-> "application/json",
            report |-> [recent_scans |-> recentScans,
                        total_scans |-> Len(recentScans)]] >>

\* A read of the vulnerabilities resource: service.GetAll(), the report.
VulnerabilityResourceRead ==
    /\ \E order \in Orders(DOMAIN cache) :
        LET results == GetAll(cache, order, now, expiry)
        IN  /\ hscans' = << [call |-> "GetAll", results |-> results] >>
            /\ hret' = [op |-> "HandleVulnerabilityResource",
                        contents |-> HandleVulnerabilityResource(results),
                        err |-> Nil, before |-> cache]
    /\ hargs' = Nil
    /\ UNCHANGED cacheVars

\* A scan stores a result between two reads.
ResourceSet ==
    /\ \E key \in Keys, result \in ResourceResults(now) :
        cache' = Put(cache, key, result)
    /\ hscans' = << >>
    /\ hret' = NoRet
    /\ UNCHANGED << hargs, expiry, lock, now, cpc, carg, ret, entries >>

\* The clock advances between two reads.
ResourceTick ==
    /\ now < MaxTime
    /\ now' = now + 1
    /\ hscans' = << >>
    /\ hret' = NoRet
    /\ UNCHANGED << hargs, cache, expiry, lock, cpc, carg, ret, entries >>

ResourceNext ==
    \/ VulnerabilityResourceRead
        /\ UNCHANGED << serverVars, scanVars, keyVars, callbackVars, nucleiVars >>
    \/ ResourceSet
        /\ UNCHANGED << serverVars, scanVars, keyVars, callbackVars, nucleiVars >>
    \/ ResourceTick
        /\ UNCHANGED << serverVars, scanVars, keyVars, callbackVars, nucleiVars >>

\* Reads of the vulnerabilities resource over a cache in use.
SpecResource == CacheInit /\ [][ResourceNext]_allVars

\* The vulnerabilities resource has just been read.
ResourceRead == hret.op = "HandleVulnerabilityResource"

\* C35: HandleVulnerabilityResource returns one resource content; its
\* report has total_scans equal to the number of results GetAll returned,
\* which are all the entries of the cache, expired ones included, and one
\* recent_scans item for each, in that order, with the first min(5, n) of
\* its n findings as samples; the cache is as it was.
C35_ReportEnumeratesCache ==
    ResourceRead =>
        LET listed == hscans[1].results
            report == hret.contents[1].report
        IN  /\ Len(hret.contents) = 1
            /\ Len(hscans) = 1
            /\ Len(listed) = Cardinality(DOMAIN hret.before)
            /\ \A k \in DOMAIN hret.before :
                \E i \in 1..Len(listed) : listed[i] = hret.before[k]
            /\ report.total_scans = Len(listed)
            /\ Len(report.recent_scans) = Len(listed)
            /\ \A i \in 1..Len(listed) :
                LET item == report.recent_scans[i]
                    n == Len(listed[i].Findings)
                IN  /\ item.target = listed[i].Target
                    /\ item.findings = n
                    /\ "sample_findings" \in DOMAIN item <=> n > 0
                    /\ n > 0 =>
                        /\ Len(item.sample_findings) <= 5
                        /\ Len(item.sample_findings) = IF n < 5 THEN n ELSE 5
                        /\ \A j \in 1..Len(item.sample_findings) :
                            item.sample_findings[j].name
                                = listed[i].Findings[j]
            /\ cache = hret.before

\* The report lists two entries, one of them expired and with six findings.
C35_Witness ==
    /\ ResourceRead
    /\ hret.contents[1].report.total_scans = 2
    /\ \E i \in 1..2 :
        /\ hret.contents[1].report.recent_scans[i].findings = 6
        /\ now - hscans[1].results[i].ScanTime > expiry

(***************************************************************************)
(* The server configured with the cache disabled: main gives the scanner   *)
(* service a NoopCache.  entries keeps what has been handed to Set.        *)
(***************************************************************************)

\* Faulty variant: a ResultCache is made whatever the configuration says.
SelectCacheAlways(enabled) == "ResultCache"

\* if cfg.Cache.Enabled { NewResultCache } else { NewNoopCache }
SelectCache(enabled) == IF enabled THEN "ResultCache" ELSE "NoopCache"

\* The keys of the calls that are made.
NoopKeys == { CacheKeyOf(call) : call \in SequenceCalls }

\* A whole call of Scan, ThreadSafeScan or BasicScan, the engine succeeding.
DisabledScan ==
    \E call \in SequenceCalls :
        LET out == ScanOutcomeOn(SelectCache(FALSE), call, cache, now, expiry)
        IN  /\ cache' = out.cache
            /\ entries' = IF out.found
                          THEN entries
                          ELSE Put(entries, out.key,
                                   [value |-> out.result, createdAt |-> now])
            /\ sret' = [op |-> call.variant, call |-> call, key |-> out.key,
                        found |-> out.found, result |-> out.result,
                        err |-> FALSE, engines |-> out.engines,
                        before |-> cache, stored |-> entries]
    /\ ret' = NoRet
    /\ hscans' = << >>
    /\ hret' = NoRet
    /\ UNCHANGED << spc, slocal, scans, expiry, lock, now, cpc, carg, hargs >>

\* A whole call that fails after its cache check: at the engine or, in
\* BasicScan, at the template file before any engine is made.
DisabledScanFails ==
    \E call \in SequenceCalls :
        /\ ~ServedFromCache(CacheGet(SelectCache(FALSE), cache,
                                     CacheKeyOf(call), now, expiry))
        /\ \E engines \in IF call.variant = "BasicScan" THEN { 0, 1 } ELSE { 1 } :
            sret' = [op |-> call.variant, call |-> call,
                     key |-> CacheKeyOf(call), found |-> FALSE,
                     result |-> ZeroScanResult, err |-> TRUE,
                     engines |-> engines, before |-> cache,
                     stored |-> entries]
        /\ ret' = NoRet
        /\ hscans' = << >>
        /\ hret' = NoRet
        /\ UNCHANGED << spc, slocal, scans, cache, expiry, lock, now, cpc,
                        carg, entries, hargs >>

\* A call of Get on the cache.
DisabledGet ==
    /\ \E key \in NoopKeys :
        LET got == CacheGet(SelectCache(FALSE), cache, key, now, expiry)
        IN  ret' = [op |-> "Get", key |-> key, found |-> got.found,
                    result |-> got.result, stored |-> entries]
    /\ sret' = NoRet
    /\ hscans' = << >>
    /\ hret' = NoRet
    /\ UNCHANGED << spc, slocal, scans, cache, expiry, lock, now, cpc, carg,
                    entries, hargs >>

\* A read of the vulnerabilities resource.
DisabledResourceRead ==
    /\ \E order \in Orders(DOMAIN cache) :
        LET results == CacheGetAll(SelectCache(FALSE), cache, order, now, expiry)
        IN  /\ hscans' = << [call |-> "GetAll", results |-> results] >>
            /\ hret' = [op |-> "HandleVulnerabilityResource",
                        contents |-> HandleVulnerabilityResource(results),
                        err |-> Nil, before |-> cache, stored |-> entries]
    /\ sret' = NoRet
    /\ ret' = NoRet
    /\ UNCHANGED << spc, slocal, scans, cache, expiry, lock, now, cpc, carg,
                    entries, hargs >>

\* The clock advances.
DisabledTick ==
    /\ now < MaxExpiry + 1
    /\ now' = now + 1
    /\ sret' = NoRet
    /\ ret' = NoRet
    /\ hscans' = << >>
    /\ hret' = NoRet
    /\ UNCHANGED << spc, slocal, scans, cache, expiry, lock, cpc, carg,
                    entries, hargs >>

DisabledNext ==
    \/ DisabledScan /\ UNCHANGED << serverVars, keyVars, callbackVars, nucleiVars >>
    \/ DisabledScanFails
        /\ UNCHANGED << serverVars, keyVars, callbackVars, nucleiVars >>
    \/ DisabledGet /\ UNCHANGED << serverVars, keyVars, callbackVars, nucleiVars >>
    \/ DisabledResourceRead
        /\ UNCHANGED << serverVars, keyVars, callbackVars, nucleiVars >>
    \/ DisabledTick /\ UNCHANGED << serverVars, keyVars, callbackVars, nucleiVars >>

\* Scans, cache reads and resource reads with the cache disabled.
SpecDisabled == ScanInit /\ [][DisabledNext]_allVars

\* Set has been called with this key no longer ago than the expiry.
StoredLately(stored, key) ==
    /\ key \in DOMAIN stored
    /\ now - stored[key].createdAt <= expiry

\* C36: with the cache disabled, Get finds nothing under any key whatever
\* has been handed to Set, Set leaves nothing behind and GetAll returns no
\* result; so no Scan, ThreadSafeScan or BasicScan is answered from the
\* cache, each goes on to the scan and makes an engine unless it has failed
\* before, and the vulnerabilities resource reports no scan.
C36_DisabledCacheKeepsNothing ==
    /\ cache = EmptyMap
    /\ ret.op = "Get" =>
        /\ ~ret.found
        /\ ret.result = ZeroScanResult
    /\ ScanReturned =>
        /\ ~sret.found
        /\ ~sret.err => sret.engines = 1
    /\ ResourceRead =>
        /\ hscans[1].results = << >>
        /\ hret.contents[1].report.total_scans = 0
        /\ hret.contents[1].report.recent_scans = << >>

\* A scan whose key had been handed to Set lately made an engine all the same.
C36_Witness ==
    /\ ScanReturned
    /\ StoredLately(sret.stored, sret.key)
    /\ ~sret.err
    /\ sret.engines = 1

(***************************************************************************)
(* The result callback of the pooled-engine Scan (nuclei/nuclei_mcp.go)    *)
(* and of the nuclei-scan tool of nuclei/simple_mcp.go: the callback       *)
(* appends to the slice without taking any lock.  findings stands for the  *)
(* slice (scanResults in Scan), returnedFindings for the Findings of the   *)
(* ScanResult that is cached and returned.                                 *)
(***************************************************************************)

\* The engine invokes the callback on thread t; the callback goes straight
\* to the append.
PooledInvokeCallback(t) ==
    /\ tpc[t] = "idle"
    /\ ~returnedFindings.returned
    /\ Cardinality(InvokedBy(t)) < MaxEvents
    /\ LET event == [by |-> t, n |-> Cardinality(InvokedBy(t)) + 1]
       IN  /\ invoked' = invoked \cup { event }
           /\ tlocal' = [tlocal EXCEPT ![t] = [event |-> event,
                                                read |-> << >>]]
    /\ tpc' = [tpc EXCEPT ![t] = "read"]
    /\ UNCHANGED << findings, findingsMutex, returnedFindings >>

\* scanResults = append(scanResults, event): the longer slice is written and
\* the callback returns.
PooledAppendWrite(t) ==
    /\ tpc[t] = "write"
    /\ findings' = Append(tlocal[t].read, tlocal[t].event)
    /\ tlocal' = [tlocal EXCEPT ![t] = Nil]
    /\ tpc' = [tpc EXCEPT ![t] = "idle"]
    /\ UNCHANGED << findingsMutex, invoked, returnedFindings >>

PooledCallbackNext ==
    \/ \E t \in Threads : PooledInvokeCallback(t)
        /\ UNCHANGED << serverVars, cacheVars, scanVars, keyVars, handlerVars, nucleiVars >>
    \/ \E t \in Threads : AppendRead(t)
        /\ UNCHANGED << serverVars, cacheVars, scanVars, keyVars, handlerVars, nucleiVars >>
    \/ \E t \in Threads : PooledAppendWrite(t)
        /\ UNCHANGED << serverVars, cacheVars, scanVars, keyVars, handlerVars, nucleiVars >>
    \/ ExecuteWithCallbackReturns
        /\ UNCHANGED << serverVars, cacheVars, scanVars, keyVars, handlerVars, nucleiVars >>

\* One execution of the pooled-engine Scan with its callbacks.
SpecPooledCallback == CallbackInit /\ [][PooledCallbackNext]_allVars

\* C37: in the pooled-engine Scan, whatever the interleaving of the
\* callbacks, the findings of the result that is cached and returned hold
\* every event the callback was invoked with exactly once.
C37_PooledEveryEventOnce ==
    returnedFindings.returned =>
        \A e \in invoked : Occurrences(returnedFindings.Findings, e) = 1

(***************************************************************************)
(* ScannerPool.  Get, Put and Close each hold p.lock from beginning to     *)
(* end, so each is one step.  An engine is written by the number of its    *)
(* creation; Nil is the nil *NucleiEngine.                                 *)
(***************************************************************************)

PoolSize == 1

MaxEngines == 3

Engine(n) == [engine |-> n]

\* The elements of a sequence.
Range(q) == { q[i] : i \in 1..Len(q) }

\* Faulty variant: the engine received stays in the channel.
ReceivePeek(ch) == [value |-> Head(ch), rest |-> ch]

\* scanner := <-p.scanners on a channel that holds an element
Receive(ch) == [value |-> Head(ch), rest |-> Tail(ch)]

\* NewScannerPool(size): the engines that could be created are in the
\* channel, at most size of them.
PoolInit ==
    /\ ServerIdle
    /\ CacheIdle
    /\ ScanIdle
    /\ KeysIdle
    /\ CallbackIdle
    /\ HandlerIdle
    /\ \E n \in 0..PoolSize :
        /\ scanners = [i \in 1..n |-> Engine(i)]
        /\ made = n
    /\ chanClosed = FALSE
    /\ engineClosed = {}
    /\ ppc = [g \in PoolCallers |-> "idle"]
    /\ held = [g \in PoolCallers |-> Nil]
    /\ pret = NoRet
    /\ recentResults = << >>
    /\ added = << >>
    /\ presented = NoRet

\* Scan, having missed the cache, calls s.pool.Get(): an engine from the
\* channel.
PoolGet(g) ==
    /\ ppc[g] = "idle"
    /\ ~chanClosed
    /\ scanners # << >>
    /\ scanners' = Receive(scanners).rest
    /\ held' = [held EXCEPT ![g] = Receive(scanners).value]
    /\ ppc' = [ppc EXCEPT ![g] = "scanning"]
    /\ pret' = [op |-> "Get", by |-> g,
                engine |-> Receive(scanners).value, err |-> Nil]
    /\ UNCHANGED << made, chanClosed, engineClosed >>

\* Get after Close: the receive from the closed, drained channel yields the
\* zero value at once, so Get returns nil, nil and Scan goes on with it.
PoolGetClosed(g) ==
    /\ ppc[g] = "idle"
    /\ chanClosed
    /\ held' = [held EXCEPT ![g] = Nil]
    /\ ppc' = [ppc EXCEPT ![g] = "scanning"]
    /\ pret' = [op |-> "Get", by |-> g, engine |-> Nil, err |-> Nil]
    /\ UNCHANGED << scanners, made, chanClosed, engineClosed >>

\* Get on an empty channel: a new engine is created.
PoolGetCreates(g) ==
    /\ ppc[g] = "idle"
    /\ ~chanClosed
    /\ scanners = << >>
    /\ made < MaxEngines
    /\ made' = made + 1
    /\ held' = [held EXCEPT ![g] = Engine(made + 1)]
    /\ ppc' = [ppc EXCEPT ![g] = "scanning"]
    /\ pret' = [op |-> "Get", by |-> g, engine |-> Engine(made + 1),
                err |-> Nil]
    /\ UNCHANGED << scanners, chanClosed, engineClosed >>

\* Get on an empty channel, nuclei.NewNucleiEngine failing: Scan returns
\* "failed to get scanner".
PoolGetFails(g) ==
    /\ ppc[g] = "idle"
    /\ ~chanClosed
    /\ scanners = << >>
    /\ pret' = [op |-> "Get", by |-> g, engine |-> Nil,
                err |-> [msg |-> "NewNucleiEngine"]]
    /\ UNCHANGED << scanners, chanClosed, made, engineClosed, ppc, held >>

\* The deferred s.pool.Put(scanner) as Scan returns, with a result or with
\* "scan execution failed": the engine goes back into the channel, or is
\* closed when the channel is full.
PoolPut(g) ==
    /\ ppc[g] = "scanning"
    /\ ~chanClosed
    /\ \E failed \in BOOLEAN :
        \/ /\ Len(scanners) < PoolSize
           /\ scanners' = Append(scanners, held[g])
           /\ pret' = [op |-> "Put", by |-> g, engine |-> held[g],
                       scanFailed |-> failed, panicked |-> FALSE]
           /\ UNCHANGED engineClosed
        \/ /\ Len(scanners) >= PoolSize
           /\ engineClosed' = engineClosed \cup { held[g] }
           /\ pret' = [op |-> "Put", by |-> g, engine |-> held[g],
                       scanFailed |-> failed, panicked |-> FALSE]
           /\ UNCHANGED scanners
    /\ held' = [held EXCEPT ![g] = Nil]
    /\ ppc' = [ppc EXCEPT ![g] = "idle"]
    /\ UNCHANGED << chanClosed, made >>

\* Put after Close: the send on the closed channel panics, in the select as
\* anywhere; the engine is neither pooled nor closed.
PoolPutClosed(g) ==
    /\ ppc[g] = "scanning"
    /\ chanClosed
    /\ pret' = [op |-> "Put", by |-> g, engine |-> held[g],
                scanFailed |-> FALSE, panicked |-> TRUE]
    /\ held' = [held EXCEPT ![g] = Nil]
    /\ ppc' = [ppc EXCEPT ![g] = "idle"]
    /\ UNCHANGED << scanners, chanClosed, made, engineClosed >>

\* ScannerPool.Close, deferred by main: the channel is closed and drained,
\* each engine in it closed.
PoolClose ==
    /\ ~chanClosed
    /\ chanClosed' = TRUE
    /\ engineClosed' = engineClosed \cup Range(scanners)
    /\ scanners' = << >>
    /\ pret' = [op |-> "Close"]
    /\ UNCHANGED << made, ppc, held >>

PoolNext ==
    \/ \E g \in PoolCallers : PoolGet(g)
        /\ UNCHANGED << serverVars, cacheVars, scanVars, keyVars, callbackVars, handlerVars, providerVars >>
    \/ \E g \in PoolCallers : PoolGetCreates(g)
        /\ UNCHANGED << serverVars, cacheVars, scanVars, keyVars, callbackVars, handlerVars, providerVars >>
    \/ \E g \in PoolCallers : PoolGetFails(g)
        /\ UNCHANGED << serverVars, cacheVars, scanVars, keyVars, callbackVars, handlerVars, providerVars >>
    \/ \E g \in PoolCallers : PoolPut(g)
        /\ UNCHANGED << serverVars, cacheVars, scanVars, keyVars, callbackVars, handlerVars, providerVars >>

\* Concurrent scans through the pool while the server runs.
SpecPool == PoolInit /\ [][PoolNext]_allVars

\* The engines that scans hold.
InUse == { held[g] : g \in { h \in PoolCallers : ppc[h] = "scanning" } }

\* C38: in every interleaving of the Gets and Puts of concurrent scans, no
\* engine is held by two scans, none is in the channel while a scan holds
\* it or twice in the channel, the channel never holds more than the pool
\* size, every scan Puts back the engine it got, whether it succeeded or
\* failed, and a Get can always return.
C38_EnginesExclusiveAndBounded ==
    /\ \A g, h \in PoolCallers :
        (g # h /\ ppc[g] = "scanning" /\ ppc[h] = "scanning") =>
            held[g] # held[h]
    /\ InUse \cap Range(scanners) = {}
    /\ \A i, j \in 1..Len(scanners) : scanners[i] = scanners[j] => i = j
    /\ Len(scanners) <= PoolSize
    /\ \A g \in PoolCallers :
        /\ ppc[g] = "scanning" => ENABLED PoolPut(g)
        /\ ppc[g] = "idle" =>
            ENABLED (PoolGet(g) \/ PoolGetCreates(g) \/ PoolGetFails(g))
    /\ pret.op = "Put" =>
        /\ ppc[pret.by] = "idle"
        /\ pret.engine \in Range(scanners) \cup engineClosed

\* Two scans hold engines, one of them created because the channel was
\* empty, after a third has put its engine back.
C38_Witness ==
    /\ ppc["a"] = "scanning"
    /\ ppc["b"] = "scanning"
    /\ ppc["c"] = "idle"
    /\ made > PoolSize
    /\ engineClosed # {}
    /\ pret.op = "Get"

PoolCloseNext ==
    \/ \E g \in PoolCallers : PoolGet(g)
        /\ UNCHANGED << serverVars, cacheVars, scanVars, keyVars, callbackVars, handlerVars, providerVars >>
    \/ \E g \in PoolCallers : PoolGetCreates(g)
        /\ UNCHANGED << serverVars, cacheVars, scanVars, keyVars, callbackVars, handlerVars, providerVars >>
    \/ \E g \in PoolCallers : PoolGetFails(g)
        /\ UNCHANGED << serverVars, cacheVars, scanVars, keyVars, callbackVars, handlerVars, providerVars >>
    \/ \E g \in PoolCallers : PoolGetClosed(g)
        /\ UNCHANGED << serverVars, cacheVars, scanVars, keyVars, callbackVars, handlerVars, providerVars >>
    \/ \E g \in PoolCallers : PoolPut(g)
        /\ UNCHANGED << serverVars, cacheVars, scanVars, keyVars, callbackVars, handlerVars, providerVars >>
    \/ \E g \in PoolCallers : PoolPutClosed(g)
        /\ UNCHANGED << serverVars, cacheVars, scanVars, keyVars, callbackVars, handlerVars, providerVars >>
    \/ PoolClose
        /\ UNCHANGED << serverVars, cacheVars, scanVars, keyVars, callbackVars, handlerVars, providerVars >>

\* Concurrent scans through the pool, and main returning while they run.
SpecPoolClose == PoolInit /\ [][PoolCloseNext]_allVars

\* C39: in every state, after Close as before it, Get returns an engine
\* and a nil error or no engine and an error, and Put, the deferred Put of
\* a scan that was in flight when Close ran included, does not panic and
\* leaves the engine in the channel or closed.
C39_PoolSafeAfterClose ==
    /\ pret.op = "Get" =>
        \/ pret.engine # Nil /\ pret.err = Nil
        \/ pret.engine = Nil /\ pret.err # Nil
    /\ pret.op = "Put" =>
        /\ ~pret.panicked
        /\ pret.engine \in Range(scanners) \cup engineClosed

(***************************************************************************)
(* VulnerabilityReportsProvider.  AddResult holds p.lock and GetResource   *)
(* its read side from beginning to end, so each is one step.               *)
(***************************************************************************)

MaxRecent == 10

MaxAdds == 12

\* The result of the n-th scan handed to AddResult.
ProviderResults(n) ==
    { [Target |-> t, ScanTime |-> n, Findings |-> << >>] :
        t \in { << "a" >>, << "b" >> } }

\* Faulty variant: the newest result makes room.
EvictNewest(rr) ==
    IF Len(rr) >= MaxRecent THEN SubSeq(rr, 1, Len(rr) - 1) ELSE rr

\* if len(p.recentResults) >= 10 { p.recentResults = p.recentResults[1:] }
Evict(rr) == IF Len(rr) >= MaxRecent THEN Tail(rr) ELSE rr

AddResult ==
    /\ Len(added) < MaxAdds
    /\ \E result \in ProviderResults(Len(added) + 1) :
        /\ recentResults' = Append(Evict(recentResults), result)
        /\ added' = Append(added, result)
    /\ presented' = NoRet
    /\ UNCHANGED poolVars

\* GetResource: one map for each result held, marshalled as a list.
GetResource ==
    /\ presented' =
          [op |-> "GetResource",
           items |-> [i \in 1..Len(recentResults) |->
                         [target |-> recentResults[i].Target,
                          findings |-> Len(recentResults[i].Findings),
                          scan_time |-> recentResults[i].ScanTime]]]
    /\ UNCHANGED << recentResults, added, poolVars >>

ProviderNext ==
    \/ AddResult
        /\ UNCHANGED << serverVars, cacheVars, scanVars, keyVars, callbackVars, handlerVars >>
    \/ GetResource
        /\ UNCHANGED << serverVars, cacheVars, scanVars, keyVars, callbackVars, handlerVars >>

\* Any sequence of AddResult and GetResource calls on one provider.
SpecProvider == HandlerInit /\ [][ProviderNext]_allVars

\* The last n elements of a sequence, all of it when it has fewer.
Last(q, n) ==
    IF Len(q) <= n THEN q ELSE SubSeq(q, Len(q) - n + 1, Len(q))

\* C40: after any number of AddResult calls recentResults is the last ten
\* of the results added, all of them when fewer were added, in the order in
\* which they were added, and never longer than ten; GetResource lists one
\* item for each result held, in that order.
C40_LatestTenKept ==
    /\ recentResults = Last(added, 10)
    /\ Len(recentResults) <= 10
    /\ presented.op = "GetResource" =>
        /\ Len(presented.items) = Len(recentResults)
        /\ \A i \in 1..Len(recentResults) :
            /\ presented.items[i].target = recentResults[i].Target
            /\ presented.items[i].scan_time = recentResults[i].ScanTime
            /\ presented.items[i].findings = Len(recentResults[i].Findings)

\* Twelve results have been added; the ten held, the third to the twelfth,
\* have been listed.
C40_Witness ==
    /\ Len(added) = 12
    /\ presented.op = "GetResource"
    /\ Len(presented.items) = 10
    /\ presented.items[1].scan_time = 3
    /\ presented.items[10].scan_time = 12

====
